---- MODULE Spec2Model ----
(***************************************************************************)
(* TimeFlow: the time-accounting and approval engine of src/app.py, with   *)
(* the seed scripts src/seed_sample_data.py and src/seed_admin.py, as a    *)
(* state machine over the relational tables of src/models.py.              *)
(*                                                                         *)
(* Every HTTP handler is one atomic action (one request, one transaction). *)
(* Dates are day numbers: day 0 is Monday 2024-01-01, so the weekday of a  *)
(* date d is d % 7.  Hours are kept in hundredths of an hour (8.0 h = 800).*)
(* Primary keys follow SQLite's rowid rule for INTEGER PRIMARY KEY columns *)
(* without AUTOINCREMENT: a new row gets max(id) + 1, or 1 in an empty     *)
(* table.                                                                  *)
(***************************************************************************)
EXTENDS Integers, Sequences, FiniteSets, TLC

\* ------------------------------------------------------------------ bounds
\* the clock starts on Wednesday 2024-01-03 and may advance MaxTicks days
StartDate == "2024-01-03"
MaxTicks == 1
\* how many leave requests / work entries the request handlers may create
MaxLeaves == 1
MaxWork == 1
\* deleted rows free their ids only at the top of a table, so the ids of
\* time_entries grow without limit: rows are inserted while the next id is
\* at most MaxEntryId
MaxEntryId == 17
\* ALLOW_BACKFILL_DAYS is read from the environment: the values 0..MaxBackfill
MaxBackfill == 2
\* project members are added while the next id of the table is at most
\* MaxMemberId (the seed stores nine members)
MaxMemberId == 10
\* how many requests may have read their rows without having committed
MaxInflight == 2
\* side by side, attendance requests are served while the rows they may
\* insert have ids up to MaxAttendanceId
MaxAttendanceId == 2
\* the ranges of a leave request lie within the days 0..MaxSyncDay
MaxSyncDay == 9
\* the highest id a task / a task comment made by a request handler may take
MaxTaskId == 5
MaxCommentId == 2
\* the highest id a leave request made through the calendar may take
MaxLeaveId == 4
\* how many days the clock may advance between runs of the seed scripts
MaxSeedTicks == 6

\* ------------------------------------------------------- program constants
\* config.py: SHIFT_HOURS = 8.0 (hundredths of an hour)
SHIFT_HOURS == 800
\* config.py: ALLOW_BACKFILL_DAYS default
DEFAULT_ALLOW_BACKFILL_DAYS == 1

\* Python's None / SQL NULL for optional integer columns and values; it is
\* outside every integer the inputs below can produce.
None == -9999

\* models.py enumerations (stable string tokens)
Role == {"employee", "manager", "admin"}
TaskStatus == {"in_progress", "on_pause", "waiting", "done", "canceled"}
LeaveType == {"remote", "sick", "personal", "business_trip", "vacation", "admin_leave"}
LeaveStatus == {"pending", "approved", "rejected"}

\* ----------------------------------------------------------------- helpers
Max(S) == CHOOSE x \in S : \A y \in S : y <= x

\* SQLite rowid: the id the next inserted row of a table gets
NewId(table) == IF table = {} THEN 1 ELSE Max({r.id : r \in table}) + 1

\* db.get(Model, id): the row with that primary key, as a set of 0 or 1 rows
Get(table, id) == {r \in table : r.id = id}

\* Python truthiness of an optional int (None and 0 are falsy)
Truthy(x) == x # None /\ x # 0

\* TimeEntry.notes is text; a note is kept as the three parts the code
\* formats it from: f"Leave #{leave.id}: {leave.type.value}" or plain text.
TextNote(s) == [text |-> s, num |-> None, suffix |-> ""]
LeaveNote(leave) == [text |-> "Leave #", num |-> leave.id, suffix |-> leave.type]

\* ------------------------------------------------------------------- state
VARIABLES
    users,          \* table users
    projects,       \* table projects
    members,        \* table project_members
    tasks,          \* table tasks
    time_entries,   \* table time_entries
    leaves,         \* table leave_requests
    attendance,     \* table attendance
    task_comments,  \* table task_comments
    today,          \* dt.date.today()
    allow_backfill_days, \* config.ALLOW_BACKFILL_DAYS, read once at start-up
    requests,       \* requests that have read their rows and not yet committed
    last            \* the request handled last and its outcome

db == <<users, projects, members, tasks, time_entries, leaves, attendance,
        task_comments>>
vars == <<users, projects, members, tasks, time_entries, leaves, attendance,
          today, allow_backfill_days, requests, task_comments, last>>

\* the outcome of a request: which handler ran, its HTTP outcome, the caller
\* (of a request that succeeded), the row it targeted or created, its approve
\* flag, the status a decided leave request had before and how many time
\* entries were linked to it, the two id texts of a time entry form, the
\* time an attendance request read from the clock, and the status and the
\* percentage a task update was given
Outcome(op, code, caller, target, flag) ==
    [op |-> op, code |-> code, caller |-> caller, target |-> target,
     flag |-> flag, before |-> "", linked_before |-> 0,
     task_arg |-> "", project_arg |-> "", now |-> None,
     status_arg |-> "", percent_arg |-> None]

NoRequest == Outcome("none", "none", None, None, FALSE)

\* ------------------------------------------------------------------- auth
\* get_current_user: the session's user exists and is active
CurrentUsers == {u \in users : u.is_active}

\* mutant: every role passes
HasRole_Any(user, roles) == TRUE

\* require_roles(*roles)
HasRole(user, roles) == user.role \in roles

\* ------------------------------------------------------------ input parsing
\* The ISO date strings the requests may carry; IsoDays[i] is day i - 1.
IsoDays ==
    <<"2024-01-01", "2024-01-02", "2024-01-03", "2024-01-04",
      "2024-01-05", "2024-01-06", "2024-01-07", "2024-01-08">>

\* what a failed parse raises
ValueError == -8888

\* dt.date.fromisoformat(value): the day, or ValueError for any other text
\* ("2024-02-30", "03.01.2024", "" ... are not ISO dates)
ParseIsoDate(value) ==
    IF \E i \in DOMAIN IsoDays : IsoDays[i] = value
    THEN (CHOOSE i \in DOMAIN IsoDays : IsoDays[i] = value) - 1
    ELSE ValueError

\* str.strip() and str.lower() on the id texts the forms may carry
Strip(raw) ==
    CASE raw = " " -> ""
      [] raw = "  " -> ""
      [] raw = " done " -> "done"
      [] raw = " 2 " -> "2"
      [] raw = " 00 " -> "00"
      [] OTHER -> raw

Lower(raw) ==
    CASE raw = "None" -> "none"
      [] raw = "NULL" -> "null"
      [] OTHER -> raw

\* int(raw) for a stripped text: the integer, or ValueError
IntOf(raw) ==
    CASE raw = "0" -> 0
      [] raw = "00" -> 0
      [] raw = "1" -> 1
      [] raw = "2" -> 2
      [] raw = "3" -> 3
      [] raw = "4" -> 4
      [] raw = "5" -> 5
      [] raw = "-1" -> -1
      [] raw = "77" -> 77
      [] OTHER -> ValueError

\* the form field is absent: FastAPI passes the declared default ""
_parse_optional_int(raw) ==
    LET stripped == Strip(raw) IN
    IF stripped = "" \/ Lower(stripped) \in {"0", "none", "null"} THEN None
    ELSE IF IntOf(stripped) = ValueError THEN None
    ELSE IntOf(stripped)

\* ------------------------------------------------------- leave synchroniser
\* _daterange(start, end): the list start, start+1, ..., end (empty when
\* end < start, as range(days + 1) is)
\* mutant: range(days) for range(days + 1), the last day is left out
_daterange_Short(start, end) ==
    LET days == end - start IN
    [offset \in 1..(IF days > 0 THEN days ELSE 0) |-> start + (offset - 1)]

_daterange(start, end) ==
    LET days == end - start IN
    [offset \in 1..(IF days + 1 > 0 THEN days + 1 ELSE 0) |-> start + (offset - 1)]

InList(x, list) == \E i \in DOMAIN list : list[i] = x

\* the rows select(TimeEntry).where(leave_request_id == leave.id) returns
LinkedEntries(entries, leave_id) == {e \in entries : e.leave_request_id = leave_id}

\* mutant: the linked rows are not looked up, every date counts as missing
ExistingByDate_None(entries, leave) == {}

\* existing_entries = {entry.date: entry for entry in rows}: rows come in
\* rowid order, so for two rows of one date the later row is the one kept
ExistingByDate(entries, leave) ==
    {e \in LinkedEntries(entries, leave.id) :
        \A f \in LinkedEntries(entries, leave.id) : f.date = e.date => f.id <= e.id}

\* mutant: the refresh leaves the approved flag as it finds it
RefreshEntry_KeepsApproved(entry, leave) ==
    [entry EXCEPT !.hours = SHIFT_HOURS, !.notes = LeaveNote(leave),
                  !.entry_type = "leave", !.locked = TRUE]

\* entry.hours = SHIFT_HOURS; entry.notes = note; ... entry.locked = True
RefreshEntry(entry, leave) ==
    [entry EXCEPT !.hours = SHIFT_HOURS, !.notes = LeaveNote(leave),
                  !.approved = TRUE, !.entry_type = "leave", !.locked = TRUE]

\* mutant: the entries of a leave request are stored unlocked
NewLeaveEntry_Unlocked(id, leave, day) ==
    [id |-> id, user_id |-> leave.user_id, task_id |-> None, project_id |-> None,
     date |-> day, hours |-> SHIFT_HOURS, notes |-> LeaveNote(leave),
     approved |-> TRUE, locked |-> FALSE, entry_type |-> "leave",
     leave_request_id |-> leave.id]

\* TimeEntry(user_id=leave.user_id, task_id=None, ..., locked=True)
NewLeaveEntry(id, leave, day) ==
    [id |-> id, user_id |-> leave.user_id, task_id |-> None, project_id |-> None,
     date |-> day, hours |-> SHIFT_HOURS, notes |-> LeaveNote(leave),
     approved |-> TRUE, locked |-> TRUE, entry_type |-> "leave",
     leave_request_id |-> leave.id]

\* _sync_leave_time_entries(db, leave) followed by the commit: stale rows of
\* the dict are deleted, rows of desired dates refreshed, missing dates added.
\* The session flushes inserts before deletes, so the new rows take ids above
\* every row the table held, in the order of desired_dates.
_sync_leave_time_entries(entries, leave) ==
    LET desired_dates == _daterange(leave.date_from, leave.date_to)
        existing == ExistingByDate(entries, leave)
        stale == {e \in existing : ~InList(e.date, desired_dates)}
        kept == existing \ stale
        missing == {i \in DOMAIN desired_dates :
                       ~\E e \in kept : e.date = desired_dates[i]}
        rank(i) == Cardinality({j \in missing : j <= i})
        base == NewId(entries) - 1
        added == {NewLeaveEntry(base + rank(i), leave, desired_dates[i]) : i \in missing}
        refreshed == {RefreshEntry(e, leave) : e \in kept}
    IN ((entries \ existing) \cup refreshed) \cup added

\* --------------------------------------------------------- hours validation
\* float(raw) for the hours texts the form may carry, in thousandths of an
\* hour; NaN and Inf are the non-finite floats, ValueError a failed parse
NaN == -7777
Inf == -6666

FloatOf(raw) ==
    CASE raw = "8" -> 8000
      [] raw = "7.5" -> 7500
      [] raw = "0.004" -> 4
      [] raw = "0.006" -> 6
      [] raw = "0" -> 0
      [] raw = "-1" -> -1000
      [] raw = "nan" -> NaN
      [] raw = "inf" -> Inf
      [] OTHER -> ValueError

\* round(value, 2) of a positive value given in thousandths, in hundredths
\* (none of the inputs above lies on a tie)
Round2(milli) == (milli + 5) \div 10

\* _normalize_hours(raw): hundredths of an hour, or ValueError
_normalize_hours(raw) ==
    LET value == FloatOf(raw) IN
    IF value = ValueError THEN ValueError
    ELSE IF value \in {NaN, Inf} \/ value <= 0 THEN ValueError
    ELSE Round2(value)

\* ------------------------------------------------------------ time ledger
\* mutant: an employee is given every active project
allowed_projects_for_AllActive(user) == {p \in projects : p.status = "active"}

\* allowed_projects_for(user, db), as the set of rows (the order by code is
\* AllowedProjectsList below)
allowed_projects_for(user) ==
    IF user.role \in {"manager", "admin"}
    THEN {p \in projects : p.status = "active"}
    ELSE {p \in projects :
            /\ p.status = "active"
            /\ \/ p.owner_id = user.id
               \/ p.id \in {m.project_id : m \in {x \in members : x.user_id = user.id}}}

\* the project codes in the order of SQLite's BINARY collation
CodeOrder == <<"OPS-SUPPORT", "TF-CORE", "TF-CRM", "TF-NEW">>
CodeRank(code) == CHOOSE i \in DOMAIN CodeOrder : CodeOrder[i] = code

\* .order_by(Project.code): the rows as a list, lowest code first
RECURSIVE OrderByCode(_)
OrderByCode(rows) ==
    IF rows = {} THEN <<>>
    ELSE LET head == CHOOSE p \in rows :
                        \A q \in rows : CodeRank(p.code) <= CodeRank(q.code)
         IN <<head>> \o OrderByCode(rows \ {head})

\* allowed_projects_for(user, db), the list the caller is given
AllowedProjectsList(user) == OrderByCode(allowed_projects_for(user))

\* mutant: the last day of the window is already too old
BackfillApproved_Strict(d) ==
    LET delta_days == today - d IN
    ~(delta_days >= allow_backfill_days \/ d > today)

\* approved = not (delta_days > ALLOW_BACKFILL_DAYS or d > today)
BackfillApproved(d) ==
    LET delta_days == today - d IN
    ~(delta_days > allow_backfill_days \/ d > today)

\* TimeEntry(user_id=..., entry_type="work"), the other columns at their defaults
NewWorkEntry(id, user, task_id_i, project_id_i, d, hours_value, notes, approved) ==
    [id |-> id, user_id |-> user.id, task_id |-> task_id_i, project_id |-> project_id_i,
     date |-> d, hours |-> hours_value, notes |-> TextNote(notes),
     approved |-> approved, locked |-> FALSE, entry_type |-> "work",
     leave_request_id |-> None]

\* mutant: a failed request leaves a half-written row behind
Unchanged_tables_PartialWrite ==
    /\ time_entries' = time_entries \cup
          {[id |-> NewId(time_entries), user_id |-> None, task_id |-> None,
            project_id |-> None, date |-> today, hours |-> 0, notes |-> TextNote(""),
            approved |-> FALSE, locked |-> FALSE, entry_type |-> "work",
            leave_request_id |-> None]}
    /\ UNCHANGED <<users, projects, members, tasks, leaves, attendance>>

Unchanged_tables == UNCHANGED <<users, projects, members, tasks, time_entries, leaves, attendance>>

\* POST /timesheet/add
add_time_entry(user, date, hours, task_id, project_id, notes) ==
    LET d == ParseIsoDate(date)
        approved == BackfillApproved(d)
        hours_value == _normalize_hours(hours)
        task_id_i == _parse_optional_int(task_id)
        project_id_0 == IF Truthy(task_id_i) THEN None ELSE _parse_optional_int(project_id)
        task == Get(tasks, task_id_i)
        project == Get(projects, project_id_0)
        project_id_i == IF Truthy(task_id_i) THEN None ELSE project_id_0
        fail(code) ==
            /\ last' = Outcome("add_time_entry", code, None, None, FALSE)
            /\ Unchanged_tables
    IN
    /\ user \in CurrentUsers
    /\ UNCHANGED <<today, allow_backfill_days, requests, task_comments>>
    /\ IF d = ValueError THEN fail("invalid_date")
       ELSE IF hours_value = ValueError THEN fail("invalid_hours")
       ELSE IF Truthy(task_id_i) /\ task = {} THEN fail("task_missing")
       ELSE IF Truthy(task_id_i)
               /\ \E t \in task : t.assignee_id # user.id /\ user.role = "employee"
            THEN fail("task_forbidden")
       ELSE IF ~Truthy(task_id_i) /\ Truthy(project_id_0)
               /\ (project = {} \/ \E p \in project : p.status # "active")
            THEN fail("project_missing")
       ELSE IF ~Truthy(task_id_i) /\ Truthy(project_id_0) /\ user.role = "employee"
               /\ \E p \in project : p.id \notin {q.id : q \in allowed_projects_for(user)}
            THEN fail("project_forbidden")
       ELSE /\ time_entries' = time_entries \cup
                  {NewWorkEntry(NewId(time_entries), user, task_id_i, project_id_i,
                                d, hours_value, notes, approved)}
            /\ last' = [Outcome("add_time_entry", "ok", user.id, NewId(time_entries), approved)
                          EXCEPT !.task_arg = task_id, !.project_arg = project_id]
            /\ UNCHANGED <<users, projects, members, tasks, leaves, attendance>>

\* mutant: the handler without its lock check
delete_time_entry_NoLock(user, entry_id) ==
    LET te == Get(time_entries, entry_id) IN
    /\ user \in CurrentUsers
    /\ UNCHANGED <<today, allow_backfill_days, requests, task_comments>>
    /\ IF te = {} \/ \E e \in te : e.user_id # user.id
       THEN /\ last' = Outcome("delete_time_entry", "403", None, entry_id, FALSE)
            /\ UNCHANGED <<users, projects, members, tasks, time_entries, leaves, attendance>>
       ELSE /\ time_entries' = time_entries \ te
            /\ last' = Outcome("delete_time_entry", "ok", user.id, entry_id, FALSE)
            /\ UNCHANGED <<users, projects, members, tasks, leaves, attendance>>

\* mutant: the lock is looked at before the owner
delete_time_entry_LockFirst(user, entry_id) ==
    LET te == Get(time_entries, entry_id) IN
    /\ user \in CurrentUsers
    /\ UNCHANGED <<today, allow_backfill_days, requests, task_comments>>
    /\ IF \E e \in te : e.locked
       THEN /\ last' = Outcome("delete_time_entry", "400_locked", None, entry_id, FALSE)
            /\ Unchanged_tables
       ELSE IF te = {} \/ \E e \in te : e.user_id # user.id
       THEN /\ last' = Outcome("delete_time_entry", "403", None, entry_id, FALSE)
            /\ Unchanged_tables
       ELSE /\ time_entries' = time_entries \ te
            /\ last' = Outcome("delete_time_entry", "ok", user.id, entry_id, FALSE)
            /\ UNCHANGED <<users, projects, members, tasks, leaves, attendance>>

\* mutant: the delete takes every unlocked entry of the caller with it
delete_time_entry_AllOfOwner(user, entry_id) ==
    LET te == Get(time_entries, entry_id) IN
    /\ user \in CurrentUsers
    /\ UNCHANGED <<today, allow_backfill_days, requests, task_comments>>
    /\ IF te = {} \/ \E e \in te : e.user_id # user.id
       THEN /\ last' = Outcome("delete_time_entry", "403", None, entry_id, FALSE)
            /\ Unchanged_tables
       ELSE IF \E e \in te : e.locked
       THEN /\ last' = Outcome("delete_time_entry", "400_locked", None, entry_id, FALSE)
            /\ Unchanged_tables
       ELSE /\ time_entries' = {e \in time_entries : e.user_id # user.id \/ e.locked}
            /\ last' = Outcome("delete_time_entry", "ok", user.id, entry_id, FALSE)
            /\ UNCHANGED <<users, projects, members, tasks, leaves, attendance>>

\* POST /timesheet/delete
delete_time_entry(user, entry_id) ==
    LET te == Get(time_entries, entry_id) IN
    /\ user \in CurrentUsers
    /\ UNCHANGED <<today, allow_backfill_days, requests, task_comments>>
    /\ IF te = {} \/ \E e \in te : e.user_id # user.id
       THEN /\ last' = Outcome("delete_time_entry", "403", None, entry_id, FALSE)
            /\ Unchanged_tables
       ELSE IF \E e \in te : e.locked
       THEN /\ last' = Outcome("delete_time_entry", "400_locked", None, entry_id, FALSE)
            /\ Unchanged_tables
       ELSE /\ time_entries' = time_entries \ te
            /\ last' = Outcome("delete_time_entry", "ok", user.id, entry_id, FALSE)
            /\ UNCHANGED <<users, projects, members, tasks, leaves, attendance>>

\* POST /admin/approve_time
approve_time(user, entry_id, approve) ==
    LET te == Get(time_entries, entry_id) IN
    /\ user \in CurrentUsers
    /\ UNCHANGED <<today, allow_backfill_days, requests, task_comments>>
    /\ IF ~HasRole(user, {"manager", "admin"})
       THEN /\ last' = Outcome("approve_time", "403", None, entry_id, FALSE)
            /\ Unchanged_tables
       ELSE IF te = {}
       THEN /\ last' = Outcome("approve_time", "404", None, entry_id, FALSE)
            /\ Unchanged_tables
       ELSE /\ time_entries' = (time_entries \ te) \cup
                  {[e EXCEPT !.approved = (approve # 0)] : e \in te}
            /\ last' = Outcome("approve_time", "ok", user.id, entry_id, approve # 0)
            /\ UNCHANGED <<users, projects, members, tasks, leaves, attendance>>

\* ---------------------------------------------------------- leave workflow
\* mutant: a new leave request is stored approved by its requester
NewLeave_Approved(id, user, type, df, dt_to, comment) ==
    [id |-> id, user_id |-> user.id, type |-> type, date_from |-> df,
     date_to |-> dt_to, status |-> "approved", approver_id |-> user.id,
     comment |-> comment]

\* LeaveRequest(...) with status at its default, pending
NewLeave(id, user, type, df, dt_to, comment) ==
    [id |-> id, user_id |-> user.id, type |-> type, date_from |-> df,
     date_to |-> dt_to, status |-> "pending", approver_id |-> None,
     comment |-> comment]

\* POST /leaves/request; a date that does not parse raises out of the handler
request_leave(user, type, date_from, date_to, comment) ==
    LET df == ParseIsoDate(date_from)
        dt_to == ParseIsoDate(date_to)
    IN
    /\ user \in CurrentUsers
    /\ UNCHANGED <<today, allow_backfill_days, requests, task_comments>>
    /\ IF df = ValueError \/ dt_to = ValueError
       THEN /\ last' = Outcome("request_leave", "500", None, None, FALSE)
            /\ Unchanged_tables
       ELSE /\ leaves' = leaves \cup {NewLeave(NewId(leaves), user, type, df, dt_to, comment)}
            /\ last' = Outcome("request_leave", "ok", user.id, NewId(leaves), FALSE)
            /\ UNCHANGED <<users, projects, members, tasks, time_entries, attendance>>

\* mutant: a rejected request of the user blocks the date as well
ExistingLeave_AnyStatus(tbl, user, d) ==
    {lr \in tbl : lr.user_id = user.id /\ lr.date_from <= d /\ lr.date_to >= d}

\* select(LeaveRequest).where(user_id == user.id, date_from <= d,
\* date_to >= d, status != rejected)
ExistingLeave(tbl, user, d) ==
    {lr \in tbl :
        /\ lr.user_id = user.id
        /\ lr.date_from <= d
        /\ lr.date_to >= d
        /\ lr.status # "rejected"}

\* POST /calendar/leave_cell
calendar_leave_cell(user, date, type) ==
    LET d == ParseIsoDate(date)
        existing == ExistingLeave(leaves, user, d)
    IN
    /\ user \in CurrentUsers
    /\ UNCHANGED <<today, allow_backfill_days, requests, task_comments>>
    /\ IF d = ValueError
       THEN /\ last' = Outcome("calendar_leave_cell", "invalid_start", None, None, FALSE)
            /\ Unchanged_tables
       ELSE IF existing # {}
       THEN /\ last' = Outcome("calendar_leave_cell", "leave_exists", None, None, FALSE)
            /\ Unchanged_tables
       ELSE /\ leaves' = leaves \cup
                  {NewLeave(NewId(leaves), user, type, d, d, "calendar")}
            /\ last' = Outcome("calendar_leave_cell", "leave_created", user.id, NewId(leaves), FALSE)
            /\ UNCHANGED <<users, projects, members, tasks, time_entries, attendance>>

\* mutant: the delete takes the entries of every leave request
_delete_leave_entries_OfAll(entries, leave_id) ==
    {e \in entries : e.leave_request_id = None}

\* mutant: the delete spares locked rows
_delete_leave_entries_Unlocked(entries, leave_id) ==
    {e \in entries : e.leave_request_id # leave_id \/ e.locked}

\* db.execute(delete(TimeEntry).where(TimeEntry.leave_request_id == lr.id))
_delete_leave_entries(entries, leave_id) ==
    {e \in entries : e.leave_request_id # leave_id}

\* POST /admin/approve_leave
approve_leave(user, leave_id, approve) ==
    LET lr == Get(leaves, leave_id) IN
    /\ user \in CurrentUsers
    /\ UNCHANGED <<today, allow_backfill_days, requests, task_comments>>
    /\ IF ~HasRole(user, {"manager", "admin"})
       THEN /\ last' = Outcome("approve_leave", "403", None, leave_id, FALSE)
            /\ Unchanged_tables
       ELSE IF lr = {}
       THEN /\ last' = Outcome("approve_leave", "404", None, leave_id, FALSE)
            /\ Unchanged_tables
       ELSE \E old \in lr :
            LET new == [old EXCEPT !.status = IF approve # 0 THEN "approved" ELSE "rejected",
                                   !.approver_id = user.id]
            IN
            /\ leaves' = (leaves \ lr) \cup {new}
            /\ time_entries' =
                  IF approve # 0
                  THEN _sync_leave_time_entries(time_entries, new)
                  ELSE _delete_leave_entries(time_entries, new.id)
            /\ last' = [Outcome("approve_leave", "ok", user.id, leave_id, approve # 0)
                          EXCEPT !.before = old.status,
                                 !.linked_before =
                                     Cardinality(LinkedEntries(time_entries, old.id))]
            /\ UNCHANGED <<users, projects, members, tasks, attendance>>

\* approve_leave served next to other requests (the handlers are plain
\* functions, run on worker threads, each with a session of its own).  The
\* driver opens no transaction for a SELECT: the request reads the leave
\* request and, when it approves, the rows linked to it, holding no lock ...
approve_leave_select(user, leave_id, approve) ==
    /\ user \in CurrentUsers
    /\ HasRole(user, {"manager", "admin"})
    /\ \E lr \in Get(leaves, leave_id) :
          requests' = requests \cup
             {[op |-> "approve_leave", user_id |-> user.id, approve |-> approve,
               lr |-> lr,
               linked |-> IF approve # 0 THEN LinkedEntries(time_entries, leave_id)
                          ELSE {}]}
    /\ UNCHANGED <<users, projects, members, tasks, time_entries, leaves, attendance,
                   today, allow_backfill_days, task_comments, last>>

\* the rows of the request's _sync_leave_time_entries that the flush has to
\* find: the stale rows it deletes need not be there (a DELETE that matches
\* no row only warns), the rows whose refresh changes a column must be
\* (an UPDATE that matches no row raises StaleDataError)
SyncUpdates(linked, leave) ==
    {e \in ExistingByDate(linked, leave) :
        /\ InList(e.date, _daterange(leave.date_from, leave.date_to))
        /\ RefreshEntry(e, leave) # e}

\* what the flush of the request's _sync_leave_time_entries writes to the
\* table as it is at the commit: the decisions were taken on the rows read
\* (linked), the new rows take ids above every row of the table
SyncWrite(entries, linked, leave) ==
    LET desired_dates == _daterange(leave.date_from, leave.date_to)
        existing == ExistingByDate(linked, leave)
        stale == {e \in existing : ~InList(e.date, desired_dates)}
        kept == existing \ stale
        missing == {i \in DOMAIN desired_dates :
                       ~\E e \in kept : e.date = desired_dates[i]}
        rank(i) == Cardinality({j \in missing : j <= i})
        base == NewId(entries) - 1
        added == {NewLeaveEntry(base + rank(i), leave, desired_dates[i]) : i \in missing}
    IN {IF \E k \in kept : k.id = e.id THEN RefreshEntry(e, leave) ELSE e :
           e \in {t \in entries : ~\E d \in stale : d.id = t.id}} \cup added

\* ... and later writes and commits; SQLite lets one writer in at a time.
\* No constraint of time_entries speaks of (leave_request_id, date), so rows
\* for dates that have got a row since the read are accepted.
approve_leave_commit(r) ==
    LET new == [r.lr EXCEPT !.status = IF r.approve # 0 THEN "approved" ELSE "rejected",
                            !.approver_id = r.user_id]
        gone == {e \in SyncUpdates(r.linked, new) : Get(time_entries, e.id) = {}}
    IN
    /\ r \in requests
    /\ r.op = "approve_leave"
    /\ requests' = requests \ {r}
    /\ UNCHANGED <<users, projects, members, tasks, attendance,
                   today, allow_backfill_days, task_comments>>
    /\ IF Get(leaves, new.id) = {} \/ (r.approve # 0 /\ gone # {})
       THEN /\ last' = Outcome("approve_leave", "500", None, new.id, FALSE)
            /\ UNCHANGED <<leaves, time_entries>>
       ELSE /\ leaves' = {IF l.id = new.id
                          THEN [l EXCEPT !.status = new.status,
                                         !.approver_id = new.approver_id]
                          ELSE l : l \in leaves}
            /\ time_entries' =
                  IF r.approve # 0
                  THEN SyncWrite(time_entries, r.linked, new)
                  ELSE _delete_leave_entries(time_entries, new.id)
            /\ last' = [Outcome("approve_leave", "ok", r.user_id, new.id, r.approve # 0)
                          EXCEPT !.before = r.lr.status,
                                 !.linked_before = Cardinality(r.linked)]

Min(S) == CHOOSE x \in S : \A y \in S : x <= y

\* _first(session, stmt): the first row of the result (rowid order), if any
First(rows) == {r \in rows : r.id = Min({x.id : x \in rows})}

\* --------------------------------------------------------------- attendance
\* dt.datetime.combine(day, dt.time(hour, minute)), in minutes since day 0
DateTime(day, hour, minute) == day * 1440 + hour * 60 + minute

\* mutant: the select finds no row
AttendanceRead_None(tbl, user_id, day) == {}

\* db.scalar(select(Attendance).where(user_id == user.id, date == today)):
\* the first row of the result, or none
AttendanceRead(tbl, user_id, day) ==
    First({a \in tbl : a.user_id = user_id /\ a.date = day})

\* mutant: check_in is overwritten
CheckinWrite_LastWins(tbl, user_id, day, now, att) ==
    IF att = {}
    THEN tbl \cup {[id |-> NewId(tbl), user_id |-> user_id, date |-> day,
                    check_in |-> now, check_out |-> None]}
    ELSE {IF \E r \in att : r.id = a.id THEN [a EXCEPT !.check_in = now] ELSE a : a \in tbl}

\* attendance_checkin after its select returned att: a new row, or
\* att.check_in = att.check_in or now on the row that was read (an UPDATE only
\* when the value read was None)
CheckinWrite(tbl, user_id, day, now, att) ==
    IF att = {}
    THEN tbl \cup {[id |-> NewId(tbl), user_id |-> user_id, date |-> day,
                    check_in |-> now, check_out |-> None]}
    ELSE {IF \E r \in att : r.id = a.id /\ r.check_in = None
          THEN [a EXCEPT !.check_in = now] ELSE a : a \in tbl}

\* mutant: check_out is written once
CheckoutWrite_FirstWins(tbl, user_id, day, now, att) ==
    IF att = {}
    THEN tbl \cup {[id |-> NewId(tbl), user_id |-> user_id, date |-> day,
                    check_in |-> now, check_out |-> now]}
    ELSE {IF \E r \in att : r.id = a.id /\ r.check_out = None
          THEN [a EXCEPT !.check_out = now] ELSE a : a \in tbl}

\* mutant: a check_out for a day without record stores no check_in
CheckoutWrite_NoCheckin(tbl, user_id, day, now, att) ==
    IF att = {}
    THEN tbl \cup {[id |-> NewId(tbl), user_id |-> user_id, date |-> day,
                    check_in |-> None, check_out |-> now]}
    ELSE {IF \E r \in att : r.id = a.id THEN [a EXCEPT !.check_out = now] ELSE a : a \in tbl}

\* attendance_checkout after its select returned att
CheckoutWrite(tbl, user_id, day, now, att) ==
    IF att = {}
    THEN tbl \cup {[id |-> NewId(tbl), user_id |-> user_id, date |-> day,
                    check_in |-> now, check_out |-> now]}
    ELSE {IF \E r \in att : r.id = a.id THEN [a EXCEPT !.check_out = now] ELSE a : a \in tbl}

AttendanceWrite(op, tbl, user_id, day, now, att) ==
    IF op = "attendance_checkin"
    THEN CheckinWrite(tbl, user_id, day, now, att)
    ELSE CheckoutWrite(tbl, user_id, day, now, att)

\* the id of the row a request wrote or left alone
AttendanceTarget(tbl, att) ==
    IF att = {} THEN NewId(tbl) ELSE (CHOOSE r \in att : TRUE).id

\* POST /attendance/checkin, run from its select to its commit; the flag of
\* the outcome tells whether the row had a check_in already
attendance_checkin(user, now) ==
    LET att == AttendanceRead(attendance, user.id, today) IN
    /\ user \in CurrentUsers
    /\ UNCHANGED <<today, allow_backfill_days, requests, task_comments>>
    /\ attendance' = CheckinWrite(attendance, user.id, today, now, att)
    /\ last' = [Outcome("attendance_checkin", "ok", user.id,
                        AttendanceTarget(attendance, att),
                        \E r \in att : r.check_in # None)
                  EXCEPT !.now = now]
    /\ UNCHANGED <<users, projects, members, tasks, time_entries, leaves>>

\* POST /attendance/checkout, run from its select to its commit; the flag of
\* the outcome tells whether the row had a check_out already
attendance_checkout(user, now) ==
    LET att == AttendanceRead(attendance, user.id, today) IN
    /\ user \in CurrentUsers
    /\ UNCHANGED <<today, allow_backfill_days, requests, task_comments>>
    /\ attendance' = CheckoutWrite(attendance, user.id, today, now, att)
    /\ last' = [Outcome("attendance_checkout", "ok", user.id,
                        AttendanceTarget(attendance, att),
                        \E r \in att : r.check_out # None)
                  EXCEPT !.now = now]
    /\ UNCHANGED <<users, projects, members, tasks, time_entries, leaves>>

\* An attendance request served next to others (the handlers are plain
\* functions, run on worker threads, each with a session of its own): it
\* reads today, the row and the clock ...
attendance_select(op, user, now) ==
    /\ user \in CurrentUsers
    /\ requests' = requests \cup
          {[op |-> op, user_id |-> user.id, date |-> today, now |-> now,
            att |-> AttendanceRead(attendance, user.id, today)]}
    /\ UNCHANGED <<users, projects, members, tasks, time_entries, leaves, attendance,
                   today, allow_backfill_days, task_comments, last>>

\* ... and later writes and commits.  The table has no unique constraint on
\* (user_id, date), so the insert of a second row for one day is accepted.
attendance_commit(r) ==
    /\ r \in requests
    /\ requests' = requests \ {r}
    /\ attendance' = AttendanceWrite(r.op, attendance, r.user_id, r.date, r.now, r.att)
    /\ last' = [Outcome(r.op, "ok", r.user_id, AttendanceTarget(attendance, r.att), r.att # {})
                  EXCEPT !.now = r.now]
    /\ UNCHANGED <<users, projects, members, tasks, time_entries, leaves,
                   today, allow_backfill_days, task_comments>>

\* ----------------------------------------------------------------- projects
\* POST /projects/new; a code that is taken violates uq_project_code and
\* the commit raises
new_project(user, code, is_project, owner_id) ==
    /\ user \in CurrentUsers
    /\ UNCHANGED <<today, allow_backfill_days, requests, task_comments>>
    /\ IF ~HasRole(user, {"manager", "admin"})
       THEN /\ last' = Outcome("new_project", "403", None, None, FALSE)
            /\ Unchanged_tables
       ELSE IF \E p \in projects : p.code = code
       THEN /\ last' = Outcome("new_project", "500", None, None, FALSE)
            /\ Unchanged_tables
       ELSE /\ projects' = projects \cup
                  {[id |-> NewId(projects), code |-> code, status |-> "active",
                    is_project |-> (is_project # 0),
                    owner_id |-> IF Truthy(owner_id) THEN owner_id ELSE None]}
            /\ last' = Outcome("new_project", "ok", user.id, NewId(projects), FALSE)
            /\ UNCHANGED <<users, members, tasks, time_entries, leaves, attendance>>

\* POST /projects/close
close_project(user, project_id) ==
    LET p == Get(projects, project_id) IN
    /\ user \in CurrentUsers
    /\ UNCHANGED <<today, allow_backfill_days, requests, task_comments>>
    /\ IF ~HasRole(user, {"manager", "admin"})
       THEN /\ last' = Outcome("close_project", "403", None, project_id, FALSE)
            /\ Unchanged_tables
       ELSE IF p = {}
       THEN /\ last' = Outcome("close_project", "404", None, project_id, FALSE)
            /\ Unchanged_tables
       ELSE /\ projects' = (projects \ p) \cup {[q EXCEPT !.status = "closed"] : q \in p}
            /\ last' = Outcome("close_project", "ok", user.id, project_id, FALSE)
            /\ UNCHANGED <<users, members, tasks, time_entries, leaves, attendance>>

\* POST /projects/{project_id}/members/add; user_id is not looked up
project_add_member(user, project_id, user_id) ==
    LET p == Get(projects, project_id)
        exists == {m \in members : m.project_id = project_id /\ m.user_id = user_id}
    IN
    /\ user \in CurrentUsers
    /\ UNCHANGED <<today, allow_backfill_days, requests, task_comments>>
    /\ IF ~HasRole(user, {"manager", "admin"})
       THEN /\ last' = Outcome("project_add_member", "403", None, project_id, FALSE)
            /\ Unchanged_tables
       ELSE IF p = {}
       THEN /\ last' = Outcome("project_add_member", "404", None, project_id, FALSE)
            /\ Unchanged_tables
       ELSE /\ members' = IF exists = {}
                          THEN members \cup {[id |-> NewId(members),
                                              project_id |-> project_id,
                                              user_id |-> user_id]}
                          ELSE members
            /\ last' = Outcome("project_add_member", "ok", user.id, project_id, exists = {})
            /\ UNCHANGED <<users, projects, tasks, time_entries, leaves, attendance>>

\* POST /projects/{project_id}/members/remove; project_id only names the page
\* the redirect goes to
project_remove_member(user, project_id, member_id) ==
    LET m == Get(members, member_id) IN
    /\ user \in CurrentUsers
    /\ UNCHANGED <<today, allow_backfill_days, requests, task_comments>>
    /\ IF ~HasRole(user, {"manager", "admin"})
       THEN /\ last' = Outcome("project_remove_member", "403", None, member_id, FALSE)
            /\ Unchanged_tables
       ELSE /\ members' = members \ m
            /\ last' = Outcome("project_remove_member", "ok", user.id, member_id, m # {})
            /\ UNCHANGED <<users, projects, tasks, time_entries, leaves, attendance>>

\* ------------------------------------------------------------------- tasks
\* mutant: every new task is approved and in progress
NewTask_Approved(id, user, title, assignee_id, project_id) ==
    [id |-> id, title |-> title, assignee_id |-> assignee_id,
     created_by_id |-> user.id, status |-> "in_progress", percent_complete |-> 0,
     approved |-> TRUE, project_id |-> project_id]

\* Task(title=..., assignee_id=assignee_id, ..., approved=(not needs_approval),
\* status=...): percent_complete is left to its column default 0
NewTask(id, user, title, assignee_id, project_id) ==
    [id |-> id, title |-> title, assignee_id |-> assignee_id,
     created_by_id |-> user.id,
     status |-> IF user.role = "employee" THEN "waiting" ELSE "in_progress",
     percent_complete |-> 0,
     approved |-> ~(user.role = "employee"),
     project_id |-> project_id]

\* POST /tasks/new: the two dates are parsed when given; neither the
\* assignee nor the project is looked up
create_task(user, title, assignee_id, project_id, start_date, due_date) ==
    LET sd == IF start_date # "" THEN ParseIsoDate(start_date) ELSE None
        dd == IF due_date # "" THEN ParseIsoDate(due_date) ELSE None
    IN
    /\ user \in CurrentUsers
    /\ UNCHANGED <<today, allow_backfill_days, requests, task_comments>>
    /\ IF sd = ValueError \/ dd = ValueError
       THEN /\ last' = Outcome("create_task", "500", None, None, FALSE)
            /\ Unchanged_tables
       ELSE /\ tasks' = tasks \cup {NewTask(NewId(tasks), user, title, assignee_id, project_id)}
            /\ last' = Outcome("create_task", "ok", user.id, NewId(tasks), FALSE)
            /\ UNCHANGED <<users, projects, members, time_entries, leaves, attendance>>

\* mutant: the percentage is stored as it is given
ClampPercent_AsGiven(percent) == percent

\* max(0, min(100, percent))
ClampPercent(percent) == Max({0, Min({100, percent})})

\* mutant: an employee may update any task
TaskAccess_Anyone(user, task) == TRUE

\* not (user.role == Role.employee and task.assignee_id != user.id)
TaskAccess(user, task) == ~(user.role = "employee" /\ task.assignee_id # user.id)

\* mutant: the comment is stored as it is given, whenever one is given
NewComments_Raw(tbl, task, user, comment) ==
    IF comment # ""
    THEN {[id |-> NewId(tbl), task_id |-> task.id, author_id |-> user.id,
           content |-> comment]}
    ELSE {}

\* if comment.strip(): db.add(TaskComment(task_id=task.id, author_id=user.id,
\* content=comment.strip()))
NewComments(tbl, task, user, comment) ==
    IF Strip(comment) # ""
    THEN {[id |-> NewId(tbl), task_id |-> task.id, author_id |-> user.id,
           content |-> Strip(comment)]}
    ELSE {}

\* mutant: a task that is done or canceled keeps its status
NextStatus_Final(task, status_v) ==
    IF task.status \in {"done", "canceled"} THEN task.status ELSE status_v

\* task.status = status_v
NextStatus(task, status_v) == status_v

\* POST /tasks/update_status: a task that does not exist and a task the
\* caller may not update are answered alike, with 403
update_task_status(user, task_id, status_v, percent, comment) ==
    LET task == Get(tasks, task_id) IN
    /\ user \in CurrentUsers
    /\ UNCHANGED <<today, allow_backfill_days, requests>>
    /\ IF task = {} \/ \E t \in task : ~TaskAccess(user, t)
       THEN /\ last' = Outcome("update_task_status", "403", None, task_id, FALSE)
            /\ Unchanged_tables
            /\ UNCHANGED task_comments
       ELSE \E t \in task :
            /\ tasks' = (tasks \ task) \cup
                  {[t EXCEPT !.status = NextStatus(t, status_v),
                             !.percent_complete = ClampPercent(percent)]}
            /\ task_comments' = task_comments \cup NewComments(task_comments, t, user, comment)
            /\ last' = [Outcome("update_task_status", "ok", user.id, task_id,
                                NewComments(task_comments, t, user, comment) # {})
                          EXCEPT !.before = t.status, !.status_arg = status_v,
                                 !.percent_arg = percent]
            /\ UNCHANGED <<users, projects, members, time_entries, leaves, attendance>>

\* mutant: a disapproval sends the task back to waiting
ApprovedStatus_Reverts(task, approve) ==
    IF approve # 0
    THEN (IF task.status = "waiting" THEN "in_progress" ELSE task.status)
    ELSE "waiting"

\* if approve and t.status == TaskStatus.waiting: t.status = in_progress
ApprovedStatus(task, approve) ==
    IF approve # 0 /\ task.status = "waiting" THEN "in_progress" ELSE task.status

\* POST /admin/approve_task
approve_task(user, task_id, approve) ==
    LET task == Get(tasks, task_id) IN
    /\ user \in CurrentUsers
    /\ UNCHANGED <<today, allow_backfill_days, requests, task_comments>>
    /\ IF ~HasRole(user, {"manager", "admin"})
       THEN /\ last' = Outcome("approve_task", "403", None, task_id, FALSE)
            /\ Unchanged_tables
       ELSE IF task = {}
       THEN /\ last' = Outcome("approve_task", "404", None, task_id, FALSE)
            /\ Unchanged_tables
       ELSE \E t \in task :
            /\ tasks' = (tasks \ task) \cup
                  {[t EXCEPT !.approved = (approve # 0),
                             !.status = ApprovedStatus(t, approve)]}
            /\ last' = Outcome("approve_task", "ok", user.id, task_id, approve # 0)
            /\ UNCHANGED <<users, projects, members, time_entries, leaves, attendance>>

\* ------------------------------------------------------------ seed scripts
\* seed_admin.main(): create an admin unless the login exists already
seed_admin(username) ==
    /\ UNCHANGED <<today, allow_backfill_days, requests, task_comments, projects, members, tasks,
                   time_entries, leaves, attendance>>
    /\ IF \E u \in users : u.username = username
       THEN /\ UNCHANGED users
            /\ last' = Outcome("seed_admin", "exists", None, None, FALSE)
       ELSE /\ users' = users \cup
                  {[id |-> NewId(users), username |-> username, role |-> "admin",
                    is_active |-> TRUE]}
            /\ last' = Outcome("seed_admin", "ok", None, NewId(users), FALSE)

\* ensure_user: update the fields of the user with that login, or create it
ensure_user(tbl, username, role) ==
    LET found == First({u \in tbl : u.username = username}) IN
    IF found # {}
    THEN (tbl \ found) \cup {[u EXCEPT !.role = role] : u \in found}
    ELSE tbl \cup {[id |-> NewId(tbl), username |-> username, role |-> role,
                    is_active |-> TRUE]}

UserId(tbl, username) == (CHOOSE u \in tbl : u.username = username).id

\* ensure_project: is_project is passed for OPS-SUPPORT only (keep = TRUE
\* leaves the column alone on update and at its default, True, on create);
\* status is never passed: "active" on create
ensure_project(tbl, code, owner_id, keep, is_project) ==
    LET found == First({p \in tbl : p.code = code}) IN
    IF found # {}
    THEN (tbl \ found) \cup
         {[p EXCEPT !.owner_id = owner_id,
                    !.is_project = IF keep THEN @ ELSE is_project] : p \in found}
    ELSE tbl \cup {[id |-> NewId(tbl), code |-> code, status |-> "active",
                    is_project |-> IF keep THEN TRUE ELSE is_project,
                    owner_id |-> owner_id]}

ProjectId(tbl, code) == (CHOOSE p \in tbl : p.code = code).id

\* ensure_project_member
ensure_project_member(tbl, project_id, user_id) ==
    IF \E m \in tbl : m.project_id = project_id /\ m.user_id = user_id
    THEN tbl
    ELSE tbl \cup {[id |-> NewId(tbl), project_id |-> project_id, user_id |-> user_id]}

\* ensure_task: matched on title and assignee; approved is never passed
ensure_task(tbl, title, assignee_id, status, percent_complete, project_id, created_by_id) ==
    LET found == First({t \in tbl : t.title = title /\ t.assignee_id = assignee_id}) IN
    IF found # {}
    THEN (tbl \ found) \cup
         {[t EXCEPT !.status = status, !.percent_complete = percent_complete,
                    !.project_id = project_id, !.created_by_id = created_by_id] : t \in found}
    ELSE tbl \cup {[id |-> NewId(tbl), title |-> title, assignee_id |-> assignee_id,
                    created_by_id |-> created_by_id, status |-> status,
                    percent_complete |-> percent_complete, approved |-> TRUE,
                    project_id |-> project_id]}

TaskId(tbl, title, assignee_id) ==
    (CHOOSE t \in tbl : t.title = title /\ t.assignee_id = assignee_id).id

\* mutant: the time entry is added without looking for the one stored
ensure_time_entry_AlwaysAdds(tbl, spec) ==
    tbl \cup {[id |-> NewId(tbl), user_id |-> spec[1], task_id |-> spec[4],
              project_id |-> spec[5], date |-> spec[2], hours |-> spec[3],
              notes |-> TextNote(spec[6]), approved |-> TRUE, locked |-> FALSE,
              entry_type |-> "work", leave_request_id |-> None]}

\* ensure_time_entry: matched on user, date, task_id and project_id (a None
\* compares as IS NULL); spec is <<user_id, date, hours, task_id, project_id, notes>>
ensure_time_entry(tbl, spec) ==
    LET found == First({e \in tbl : /\ e.user_id = spec[1]
                                    /\ e.date = spec[2]
                                    /\ e.task_id = spec[4]
                                    /\ e.project_id = spec[5]})
    IN
    IF found # {}
    THEN (tbl \ found) \cup
         {[e EXCEPT !.hours = spec[3], !.notes = TextNote(spec[6])] : e \in found}
    ELSE tbl \cup {[id |-> NewId(tbl), user_id |-> spec[1], task_id |-> spec[4],
                    project_id |-> spec[5], date |-> spec[2], hours |-> spec[3],
                    notes |-> TextNote(spec[6]), approved |-> TRUE, locked |-> FALSE,
                    entry_type |-> "work", leave_request_id |-> None]}

RECURSIVE EnsureTimeEntries(_, _, _)
EnsureTimeEntries(tbl, specs, i) ==
    IF i > Len(specs) THEN tbl
    ELSE EnsureTimeEntries(ensure_time_entry(tbl, specs[i]), specs, i + 1)

\* ensure_attendance; spec is <<user_id, date, check_in, check_out>>
ensure_attendance(tbl, spec) ==
    LET found == First({a \in tbl : a.user_id = spec[1] /\ a.date = spec[2]}) IN
    IF found # {}
    THEN (tbl \ found) \cup
         {[a EXCEPT !.check_in = spec[3], !.check_out = spec[4]] : a \in found}
    ELSE tbl \cup {[id |-> NewId(tbl), user_id |-> spec[1], date |-> spec[2],
                    check_in |-> spec[3], check_out |-> spec[4]]}

RECURSIVE EnsureAttendances(_, _, _)
EnsureAttendances(tbl, specs, i) ==
    IF i > Len(specs) THEN tbl
    ELSE EnsureAttendances(ensure_attendance(tbl, specs[i]), specs, i + 1)

\* ensure_leave: matched on user and the two dates; the other fields are set
ensure_leave(tbl, user_id, date_from, date_to, type, status, approver_id, comment) ==
    LET found == First({l \in tbl : /\ l.user_id = user_id
                                    /\ l.date_from = date_from
                                    /\ l.date_to = date_to})
    IN
    IF found # {}
    THEN (tbl \ found) \cup
         {[l EXCEPT !.type = type, !.status = status, !.approver_id = approver_id,
                    !.comment = comment] : l \in found}
    ELSE tbl \cup {[id |-> NewId(tbl), user_id |-> user_id, type |-> type,
                    date_from |-> date_from, date_to |-> date_to, status |-> status,
                    approver_id |-> approver_id, comment |-> comment]}

\* seed_sample_data.seed(): one session, one commit
\* The tables after seed() has run on the tables T on the day `day`.
SeedTables(T, day) ==
    LET start_of_week == day - (day % 7)
        u1 == ensure_user(T.users, "a.ivanov", "admin")
        u2 == ensure_user(u1, "m.kuznetsova", "manager")
        u3 == ensure_user(u2, "d.ermakova", "employee")
        u4 == ensure_user(u3, "i.petrov", "employee")
        u5 == ensure_user(u4, "l.smirnova", "employee")
        admin == UserId(u5, "a.ivanov")
        manager == UserId(u5, "m.kuznetsova")
        designer == UserId(u5, "d.ermakova")
        developer == UserId(u5, "i.petrov")
        analyst == UserId(u5, "l.smirnova")
        p1 == ensure_project(T.projects, "TF-CORE", manager, TRUE, TRUE)
        p2 == ensure_project(p1, "TF-CRM", manager, TRUE, TRUE)
        p3 == ensure_project(p2, "OPS-SUPPORT", admin, FALSE, FALSE)
        tf_core == ProjectId(p3, "TF-CORE")
        tf_crm == ProjectId(p3, "TF-CRM")
        ops_support == ProjectId(p3, "OPS-SUPPORT")
        m1 == ensure_project_member(T.members, tf_core, manager)
        m2 == ensure_project_member(m1, tf_core, designer)
        m3 == ensure_project_member(m2, tf_core, developer)
        m4 == ensure_project_member(m3, tf_core, analyst)
        m5 == ensure_project_member(m4, tf_crm, manager)
        m6 == ensure_project_member(m5, tf_crm, developer)
        m7 == ensure_project_member(m6, tf_crm, analyst)
        m8 == ensure_project_member(m7, ops_support, admin)
        m9 == ensure_project_member(m8, ops_support, developer)
        t1 == ensure_task(T.tasks, "feedback", analyst, "in_progress", 45, tf_core, manager)
        t2 == ensure_task(t1, "mockups", designer, "in_progress", 60, tf_crm, manager)
        t3 == ensure_task(t2, "webhooks", developer, "on_pause", 35, tf_crm, manager)
        t4 == ensure_task(t3, "support", developer, "waiting", 10, ops_support, admin)
        backlog_refinement == TaskId(t4, "feedback", analyst)
        redesign_dashboard == TaskId(t4, "mockups", designer)
        api_sync == TaskId(t4, "webhooks", developer)
        ops_support_task == TaskId(t4, "support", developer)
        seed_users == <<manager, designer, developer, analyst>>
        att_specs == [k \in 1..16 |->
                        LET att_day == start_of_week + ((k - 1) \div 4) IN
                        <<seed_users[((k - 1) % 4) + 1], att_day,
                          DateTime(att_day, 9, 30), DateTime(att_day, 18, 5)>>]
        hours_of == <<650, 700, 600>>
        entry_specs == [k \in 1..12 |->
                        LET offset == (k - 1) \div 4
                            day_k == day - offset
                        IN
                        CASE (k - 1) % 4 = 0 ->
                               <<designer, day_k, hours_of[offset + 1],
                                 redesign_dashboard, tf_crm, "design">>
                          [] (k - 1) % 4 = 1 ->
                               <<developer, day_k, IF offset = 0 THEN 750 ELSE 650,
                                 IF offset < 2 THEN api_sync ELSE ops_support_task,
                                 IF offset < 2 THEN tf_crm ELSE ops_support, "api">>
                          [] (k - 1) % 4 = 2 ->
                               <<analyst, day_k, 600, backlog_refinement, tf_core, "interviews">>
                          [] OTHER ->
                               <<manager, day_k, 550, None, tf_core, "planning">>]
    IN
    [users |-> u5, projects |-> p3, members |-> m9, tasks |-> t4,
     attendance |-> EnsureAttendances(T.attendance, att_specs, 1),
     time_entries |-> EnsureTimeEntries(T.time_entries, entry_specs, 1),
     leaves |-> ensure_leave(T.leaves, designer, day + 14, day + 18, "vacation",
                             "approved", manager, "seed")]

Tables ==
    [users |-> users, projects |-> projects, members |-> members, tasks |-> tasks,
     attendance |-> attendance, time_entries |-> time_entries, leaves |-> leaves]

EmptyTables ==
    [users |-> {}, projects |-> {}, members |-> {}, tasks |-> {},
     attendance |-> {}, time_entries |-> {}, leaves |-> {}]

\* python seed_sample_data.py: one session, one commit
seed ==
    \E T \in {SeedTables(Tables, today)} :
        /\ users' = T.users
        /\ projects' = T.projects
        /\ members' = T.members
        /\ tasks' = T.tasks
        /\ attendance' = T.attendance
        /\ time_entries' = T.time_entries
        /\ leaves' = T.leaves
        /\ last' = Outcome("seed", "ok", None, None, FALSE)
        /\ UNCHANGED <<today, allow_backfill_days, requests, task_comments>>

\* the date rolls over: dt.date.today() returns the next day
Tick ==
    /\ today' = today + 1
    /\ UNCHANGED <<users, projects, members, tasks, time_entries, leaves, attendance,
                   allow_backfill_days, requests, task_comments, last>>

\* ----------------------------------------------------------- specification
\* the tables init_db() creates are empty
Init ==
    /\ users = {}
    /\ projects = {}
    /\ members = {}
    /\ tasks = {}
    /\ time_entries = {}
    /\ leaves = {}
    /\ attendance = {}
    /\ today = ParseIsoDate(StartDate)
    /\ allow_backfill_days = DEFAULT_ALLOW_BACKFILL_DAYS
    /\ requests = {}
    /\ task_comments = {}
    /\ last = NoRequest

\* the inputs the requests are given
ActorLogins == {"m.kuznetsova", "d.ermakova"}
EntryDateInputs == {"2024-01-03"}
HoursInputs == {"8"}
TaskIdInputs == {"", "00"}
ProjectIdInputs == {"", "1"}
NotesInputs == {"work"}
LeaveDateInputs == {"2024-01-04", "2024-01-05"}
CellDateInputs == {"2024-01-04"}
LeaveTypeInputs == {"sick"}
ApproveInputs == {0, 1}

\* the users who send requests
Actors == {u \in users : u.username \in ActorLogins}

\* work entries and leave requests made through the request handlers
HandlerWork == {e \in time_entries : e.notes \in {TextNote(n) : n \in NotesInputs}}
HandlerLeaves == {l \in leaves : l.comment # "seed"}

\* ids a request may name: those of the given rows and one of no row
IdInputs(rows, table) == {r.id : r \in rows} \cup {NewId(table)}

\* the time entries the delete and approve requests name: the handlers' own
\* work entries and the entries of the handlers' leave requests
EntryIdInputs ==
    IdInputs(HandlerWork \cup
             {e \in time_entries : e.leave_request_id \in {l.id : l \in HandlerLeaves}},
             time_entries)

Next ==
    \/ seed
    \/ /\ Cardinality(HandlerWork) < MaxWork
       /\ NewId(time_entries) <= MaxEntryId
       /\ \E user \in Actors, date \in EntryDateInputs, hours \in HoursInputs,
             task_id \in TaskIdInputs, project_id \in ProjectIdInputs,
             notes \in NotesInputs :
             add_time_entry(user, date, hours, task_id, project_id, notes)
    \/ \E user \in Actors, entry_id \in EntryIdInputs :
          delete_time_entry(user, entry_id)
    \/ \E user \in Actors, entry_id \in EntryIdInputs, approve \in ApproveInputs :
          approve_time(user, entry_id, approve)
    \/ /\ Cardinality(HandlerLeaves) < MaxLeaves
       /\ \E user \in Actors, type \in LeaveTypeInputs,
             date_from \in LeaveDateInputs, date_to \in LeaveDateInputs :
             request_leave(user, type, date_from, date_to, "")
    \/ /\ Cardinality(HandlerLeaves) < MaxLeaves
       /\ \E user \in Actors, date \in CellDateInputs, type \in LeaveTypeInputs :
             calendar_leave_cell(user, date, type)
    \/ \E user \in Actors, leave_id \in IdInputs(HandlerLeaves, leaves),
          approve \in ApproveInputs :
          /\ approve # 0 => NewId(time_entries) <= MaxEntryId
          /\ approve_leave(user, leave_id, approve)

Spec == Init /\ [][Next]_vars

\* The leave workflow alone: the seed, leave requests of one employee, and
\* the approval and delete requests sent by the manager, the administrator
\* and that employee.
LeaveActorLogins == {"m.kuznetsova", "a.ivanov", "d.ermakova"}
LeaveActors == {u \in users : u.username \in LeaveActorLogins}
LeaveRequesters == {u \in users : u.username = "d.ermakova"}

NextLeave ==
    \/ seed
    \/ \E user \in LeaveActors, entry_id \in EntryIdInputs :
          delete_time_entry(user, entry_id)
    \/ \E user \in LeaveActors, entry_id \in EntryIdInputs, approve \in ApproveInputs :
          approve_time(user, entry_id, approve)
    \/ /\ Cardinality(HandlerLeaves) < MaxLeaves
       /\ \E user \in LeaveRequesters, type \in LeaveTypeInputs,
             date_from \in LeaveDateInputs, date_to \in LeaveDateInputs :
             request_leave(user, type, date_from, date_to, "")
    \/ /\ Cardinality(HandlerLeaves) < MaxLeaves
       /\ \E user \in LeaveRequesters, date \in CellDateInputs, type \in LeaveTypeInputs :
             calendar_leave_cell(user, date, type)
    \/ \E user \in LeaveActors, leave_id \in IdInputs(leaves, leaves),
          approve \in ApproveInputs :
          /\ approve # 0 => NewId(time_entries) <= MaxEntryId
          /\ approve_leave(user, leave_id, approve)

SpecLeave == Init /\ [][NextLeave]_vars

\* The synchroniser on a request whose range was edited.  No request handler
\* edits the range of a leave request, so the edit is the starting state: the
\* one request of the designer is approved, its linked entries are those the
\* synchroniser wrote for the range [a, b], and its range is now [c, d].
SeedUsers == SeedTables(EmptyTables, ParseIsoDate(StartDate)).users

SyncDays == 0..MaxSyncDay

InitSync ==
    \E seeded \in {SeedUsers} :
    \E designer \in {u \in seeded : u.username = "d.ermakova"} :
    \E manager \in {u \in seeded : u.username = "m.kuznetsova"} :
    \E a \in SyncDays, b \in SyncDays, c \in SyncDays, d \in SyncDays :
        LET was == [NewLeave(1, designer, "vacation", a, b, "")
                       EXCEPT !.status = "approved", !.approver_id = manager.id]
            now == [was EXCEPT !.date_from = c, !.date_to = d]
        IN
        /\ a <= b
        /\ users = seeded
        /\ projects = {}
        /\ members = {}
        /\ tasks = {}
        /\ attendance = {}
        /\ time_entries = _sync_leave_time_entries({}, was)
        /\ leaves = {now}
        /\ today = ParseIsoDate(StartDate)
        /\ allow_backfill_days = DEFAULT_ALLOW_BACKFILL_DAYS
        /\ requests = {}
        /\ task_comments = {}
        /\ last = NoRequest

NextSync ==
    \E user \in Actors, leave_id \in IdInputs(leaves, leaves), approve \in ApproveInputs :
        approve_leave(user, leave_id, approve)

SpecSync == InitSync /\ [][NextSync]_vars

\* The backfill window: the users of the seed, ALLOW_BACKFILL_DAYS as the
\* environment sets it, the clock advancing, and work entries added for the
\* days of IsoDays and deleted again (the ids of the table stay within MaxWork).
BackfillDateInputs == {IsoDays[i] : i \in DOMAIN IsoDays}

InitBackfill ==
    /\ users = SeedUsers
    /\ projects = {}
    /\ members = {}
    /\ tasks = {}
    /\ attendance = {}
    /\ time_entries = {}
    /\ leaves = {}
    /\ today = ParseIsoDate(StartDate)
    /\ allow_backfill_days \in 0..MaxBackfill
    /\ requests = {}
    /\ task_comments = {}
    /\ last = NoRequest

NextBackfill ==
    \/ /\ today < ParseIsoDate(StartDate) + MaxTicks
       /\ Tick
    \/ /\ Cardinality(HandlerWork) < MaxWork
       /\ NewId(time_entries) <= MaxWork
       /\ \E user \in Actors, date \in BackfillDateInputs, hours \in HoursInputs,
             notes \in NotesInputs :
             add_time_entry(user, date, hours, "", "", notes)
    \/ \E user \in Actors, entry_id \in EntryIdInputs :
          delete_time_entry(user, entry_id)

SpecBackfill == InitBackfill /\ [][NextBackfill]_vars

\* The time ledger on the seeded tables: entries added with and without task
\* and project ids by the manager and by one employee, entries deleted, and
\* projects created, closed and given and taken members in between.
LedgerTaskIdInputs == {"", "2", "3", "77", "00"}
LedgerProjectIdInputs == {"", "1", "2", "4", "77", "00"}
BadDateInputs == {"2024-02-30"}
BadHoursInputs == {"abc"}
NewProjectCodes == {"TF-NEW"}
CloseProjectInputs == {2, 77}
MemberProjectInputs == {1, 2}
Designers == {u \in users : u.username = "d.ermakova"}
DesignerMembers == {m \in members : m.user_id \in {u.id : u \in Designers}}

InitLedger ==
    \E T \in {SeedTables(EmptyTables, ParseIsoDate(StartDate))} :
        /\ users = T.users
        /\ projects = T.projects
        /\ members = T.members
        /\ tasks = T.tasks
        /\ attendance = T.attendance
        /\ time_entries = T.time_entries
        /\ leaves = T.leaves
        /\ today = ParseIsoDate(StartDate)
        /\ allow_backfill_days = DEFAULT_ALLOW_BACKFILL_DAYS
        /\ requests = {}
        /\ task_comments = {}
        /\ last = Outcome("seed", "ok", None, None, FALSE)

NextLedger ==
    \/ /\ Cardinality(HandlerWork) < MaxWork
       /\ NewId(time_entries) <= MaxEntryId
       /\ \E user \in Actors, date \in EntryDateInputs, hours \in HoursInputs,
             task_id \in LedgerTaskIdInputs, project_id \in LedgerProjectIdInputs,
             notes \in NotesInputs :
             add_time_entry(user, date, hours, task_id, project_id, notes)
    \/ \E user \in Actors, date \in BadDateInputs, hours \in HoursInputs,
          notes \in NotesInputs :
          add_time_entry(user, date, hours, "", "", notes)
    \/ \E user \in Actors, date \in EntryDateInputs, hours \in BadHoursInputs,
          notes \in NotesInputs :
          add_time_entry(user, date, hours, "", "", notes)
    \/ \E user \in Actors, entry_id \in EntryIdInputs :
          delete_time_entry(user, entry_id)
    \/ \E user \in Actors, code \in NewProjectCodes, owner \in Designers :
          new_project(user, code, 1, owner.id)
    \/ \E user \in Actors, project_id \in CloseProjectInputs :
          close_project(user, project_id)
    \/ /\ NewId(members) <= MaxMemberId
       /\ \E user \in Actors, project_id \in MemberProjectInputs, member \in Designers :
             project_add_member(user, project_id, member.id)
    \/ \E user \in Actors, project_id \in MemberProjectInputs,
          member_id \in IdInputs(DesignerMembers, members) :
          project_remove_member(user, project_id, member_id)

SpecLedger == InitLedger /\ [][NextLedger]_vars

\* The hours of an entry: entries added with every hours text FloatOf reads,
\* for the days of IsoDays, and deleted again.
AllHoursInputs == {"8", "7.5", "0.004", "0.006", "0", "-1", "nan", "inf", "abc"}

NextHours ==
    \/ /\ Cardinality(HandlerWork) < MaxWork
       /\ NewId(time_entries) <= MaxWork
       /\ \E user \in Actors, date \in BackfillDateInputs, hours \in AllHoursInputs,
             notes \in NotesInputs :
             add_time_entry(user, date, hours, "", "", notes)
    \/ \E user \in Actors, entry_id \in EntryIdInputs :
          delete_time_entry(user, entry_id)

SpecHours == InitBackfill /\ [][NextHours]_vars

\* Attendance, one request at a time: the users of the seed check in and out
\* at the clock times of NowInputs while the date advances.
NowInputs == {<<9, 0>>, <<9, 30>>}
Now(t) == DateTime(today, t[1], t[2])

InitAttendance ==
    /\ users = SeedUsers
    /\ projects = {}
    /\ members = {}
    /\ tasks = {}
    /\ attendance = {}
    /\ time_entries = {}
    /\ leaves = {}
    /\ today = ParseIsoDate(StartDate)
    /\ allow_backfill_days = DEFAULT_ALLOW_BACKFILL_DAYS
    /\ requests = {}
    /\ task_comments = {}
    /\ last = NoRequest

NextAttendance ==
    \/ /\ today < ParseIsoDate(StartDate) + MaxTicks
       /\ Tick
    \/ \E user \in Actors, t \in NowInputs : attendance_checkin(user, Now(t))
    \/ \E user \in Actors, t \in NowInputs : attendance_checkout(user, Now(t))

SpecAttendance == InitAttendance /\ [][NextAttendance]_vars

\* Attendance requests of one user served side by side: up to MaxInflight
\* requests have read their row and not yet committed.
AttendanceOps == {"attendance_checkin", "attendance_checkout"}

NextAttendanceRace ==
    \/ /\ Cardinality(requests) < MaxInflight
       /\ NewId(attendance) + Cardinality(requests) <= MaxAttendanceId
       /\ \E op \in AttendanceOps, user \in Designers, t \in NowInputs :
             attendance_select(op, user, Now(t))
    \/ \E r \in requests : attendance_commit(r)

SpecAttendanceRace == InitAttendance /\ [][NextAttendanceRace]_vars

\* Decisions on one leave request served side by side: the seed's tables,
\* the leave requests of one employee, and up to MaxInflight decisions of
\* the manager and the administrator that have read and not yet committed.
LeaveApprovers == {u \in users : u.role \in {"manager", "admin"}}

NextLeaveRace ==
    \/ /\ Cardinality(HandlerLeaves) < MaxLeaves
       /\ \E user \in LeaveRequesters, type \in LeaveTypeInputs,
             date_from \in LeaveDateInputs, date_to \in LeaveDateInputs :
             request_leave(user, type, date_from, date_to, "")
    \/ /\ Cardinality(requests) < MaxInflight
       /\ \E user \in LeaveApprovers, lr \in HandlerLeaves, approve \in ApproveInputs :
             /\ approve # 0 => NewId(time_entries) <= MaxEntryId
             /\ approve_leave_select(user, lr.id, approve)
    \/ \E r \in requests : approve_leave_commit(r)

SpecLeaveRace == InitLedger /\ [][NextLeaveRace]_vars

\* The task workflow alone: the seed's tables, and tasks created, updated
\* and approved by the manager and by one employee (the designer, to whom
\* task 2 of the seed is assigned); the new task is assigned to either.
PercentInputs == {-5, 45, 150}
CommentInputs == {"", "  ", " done "}
TaskTargets == {2, MaxTaskId, 77}
TaskStartInputs == {"", "2024-01-04", "04.01.2024"}

NextTasks ==
    \/ /\ NewId(tasks) <= MaxTaskId
       /\ \E user \in Actors, assignee \in Actors, start_date \in TaskStartInputs :
             create_task(user, "new", assignee.id, None, start_date, "")
    \/ \E user \in Actors, task_id \in TaskTargets, status_v \in TaskStatus,
          percent \in PercentInputs :
          update_task_status(user, task_id, status_v, percent, "")
    \/ \E user \in Actors, task_id \in TaskTargets \ {2}, approve \in ApproveInputs :
          approve_task(user, task_id, approve)

SpecTasks == InitLedger /\ [][NextTasks]_vars

\* The comments of the task workflow: updates of the tasks 1 and 2 of the
\* seed that carry a comment text, by the manager and the designer.
NextComments ==
    \E user \in Actors, task_id \in {1, 2, 77}, status_v \in {"in_progress", "done"},
       percent \in {45}, comment \in CommentInputs :
       /\ NewComments(task_comments, [id |-> task_id], user, comment) # {}
             => NewId(task_comments) <= MaxCommentId
       /\ update_task_status(user, task_id, status_v, percent, comment)

SpecComments == InitLedger /\ [][NextComments]_vars

\* The life of a leave request: the seed's tables, the requests of one
\* employee through both forms, and the decisions of the manager, the
\* administrator and the employee, one request at a time.
NextLifecycle ==
    \/ /\ Cardinality(HandlerLeaves) < MaxLeaves
       /\ \E user \in LeaveRequesters, type \in LeaveTypeInputs,
             date_from \in LeaveDateInputs, date_to \in LeaveDateInputs :
             request_leave(user, type, date_from, date_to, "")
    \/ /\ Cardinality(HandlerLeaves) < MaxLeaves
       /\ \E user \in LeaveRequesters, date \in CellDateInputs, type \in LeaveTypeInputs :
             calendar_leave_cell(user, date, type)
    \/ \E user \in LeaveActors, leave_id \in IdInputs(leaves, leaves),
          approve \in ApproveInputs :
          /\ approve # 0 => NewId(time_entries) <= MaxEntryId
          /\ approve_leave(user, leave_id, approve)

SpecLifecycle == InitLedger /\ [][NextLifecycle]_vars

\* The calendar form: the seed's tables, leave requests of the designer and
\* of the manager for 2024-01-04..2024-01-05, quick-creates of both for
\* three date texts, and the manager's decisions.
CalendarDateInputs == {"2024-01-04", "2024-01-06", "04.01.2024"}
Managers == {u \in users : u.username = "m.kuznetsova"}

NextCalendar ==
    \/ /\ NewId(leaves) <= MaxLeaveId
       /\ \E user \in Actors, type \in LeaveTypeInputs :
             request_leave(user, type, "2024-01-04", "2024-01-05", "")
    \/ /\ NewId(leaves) <= MaxLeaveId
       /\ \E user \in Actors, date \in CalendarDateInputs, type \in LeaveTypeInputs :
             calendar_leave_cell(user, date, type)
    \/ \E user \in Managers, lr \in HandlerLeaves, approve \in ApproveInputs :
          /\ approve # 0 => NewId(time_entries) <= MaxEntryId
          /\ approve_leave(user, lr.id, approve)

SpecCalendar == InitLedger /\ [][NextCalendar]_vars

\* The approvals: the seed's tables, a task the designer creates for
\* themselves, a leave request of the designer, and approve_task,
\* approve_time and approve_leave sent by the designer (an employee), the
\* manager and the administrator.
ApprovalEntryInputs == {1, 77}

NextApprovals ==
    \/ /\ NewId(tasks) <= MaxTaskId
       /\ \E user \in Designers : create_task(user, "new", user.id, None, "", "")
    \/ /\ Cardinality(HandlerLeaves) < MaxLeaves
       /\ \E user \in Designers, type \in LeaveTypeInputs :
             request_leave(user, type, "2024-01-04", "2024-01-04", "")
    \/ \E user \in LeaveActors, task_id \in TaskTargets, approve \in ApproveInputs :
          approve_task(user, task_id, approve)
    \/ \E user \in LeaveActors, entry_id \in ApprovalEntryInputs, approve \in ApproveInputs :
          approve_time(user, entry_id, approve)
    \/ \E user \in LeaveActors, leave_id \in IdInputs(HandlerLeaves, leaves),
          approve \in ApproveInputs :
          /\ approve # 0 => NewId(time_entries) <= MaxEntryId
          /\ approve_leave(user, leave_id, approve)

SpecApprovals == InitLedger /\ [][NextApprovals]_vars

\* The projects alone: the seed's tables, projects created for the designer
\* or for nobody, closed, and given and taken members.
ProjectTargets == {2, 4, 77}

NextProjects ==
    \/ \E user \in Actors, code \in NewProjectCodes, owner \in Designers :
          \E owner_id \in {0, owner.id} : new_project(user, code, 1, owner_id)
    \/ \E user \in Actors, project_id \in ProjectTargets :
          close_project(user, project_id)
    \/ /\ NewId(members) <= MaxMemberId
       /\ \E user \in Actors, project_id \in MemberProjectInputs, member \in Designers :
             project_add_member(user, project_id, member.id)
    \/ \E user \in Actors, project_id \in MemberProjectInputs,
          member_id \in IdInputs(DesignerMembers, members) :
          project_remove_member(user, project_id, member_id)

SpecProjects == InitLedger /\ [][NextProjects]_vars

\* The seed scripts alone: seed() and seed_admin run on the empty tables
\* and again, on the same day and on later days.
SeedAdminLogins == {"admin", "a.ivanov"}

NextSeed ==
    \/ /\ today < ParseIsoDate(StartDate) + MaxSeedTicks
       /\ Tick
    \/ seed
    \/ \E username \in SeedAdminLogins : seed_admin(username)

SpecSeed == Init /\ [][NextSeed]_vars

\* The core operations together: the seed's tables, a work entry of the
\* designer or the manager dated inside the range of the leave requests, a
\* leave request of the designer, and deletes, approvals and decisions of
\* both (the decisions on the seed's leave request as well).
CoreDateInputs == {"2024-01-04"}
CoreTaskIdInputs == {"", "2"}

NextCore ==
    \/ /\ Cardinality(HandlerWork) < MaxWork
       /\ NewId(time_entries) <= MaxEntryId
       /\ \E user \in Actors, date \in CoreDateInputs, hours \in HoursInputs,
             task_id \in CoreTaskIdInputs, project_id \in ProjectIdInputs,
             notes \in NotesInputs :
             add_time_entry(user, date, hours, task_id, project_id, notes)
    \/ \E user \in Actors, entry_id \in EntryIdInputs :
          delete_time_entry(user, entry_id)
    \/ \E user \in Actors, entry_id \in EntryIdInputs, approve \in ApproveInputs :
          approve_time(user, entry_id, approve)
    \/ /\ Cardinality(HandlerLeaves) < MaxLeaves
       /\ \E user \in Designers, type \in LeaveTypeInputs,
             date_from \in LeaveDateInputs, date_to \in LeaveDateInputs :
             request_leave(user, type, date_from, date_to, "")
    \/ \E user \in Actors, leave_id \in IdInputs(leaves, leaves),
          approve \in ApproveInputs :
          /\ approve # 0 => NewId(time_entries) <= MaxEntryId
          /\ approve_leave(user, leave_id, approve)

SpecCore == InitLedger /\ [][NextCore]_vars

\* Attendance with a clock that does not run backwards: a request is
\* served at a time not before the time of the request served last.
ClockInputs == {<<9, 0>>, <<9, 30>>, <<18, 5>>}

NextClock ==
    \/ /\ today < ParseIsoDate(StartDate) + MaxTicks
       /\ Tick
    \/ \E user \in Actors, t \in ClockInputs :
          /\ Now(t) >= last.now
          /\ attendance_checkin(user, Now(t))
    \/ \E user \in Actors, t \in ClockInputs :
          /\ Now(t) >= last.now
          /\ attendance_checkout(user, Now(t))

SpecClock == InitAttendance /\ [][NextClock]_vars

\* Time logged on tasks: the seed's tables, a task the designer creates for
\* themselves, the manager's approvals of it, and work entries of the
\* designer and the manager on task 2 and on the new task.
GateTaskIdInputs == {"2", "5"}

NextGate ==
    \/ /\ NewId(tasks) <= MaxTaskId
       /\ \E user \in Designers : create_task(user, "new", user.id, None, "", "")
    \/ \E user \in Managers, task_id \in TaskTargets, approve \in ApproveInputs :
          approve_task(user, task_id, approve)
    \/ /\ Cardinality(HandlerWork) < MaxWork
       /\ NewId(time_entries) <= MaxEntryId
       /\ \E user \in Actors, date \in EntryDateInputs, hours \in HoursInputs,
             task_id \in GateTaskIdInputs, notes \in NotesInputs :
             add_time_entry(user, date, hours, task_id, "", notes)
    \/ \E user \in Actors, entry_id \in EntryIdInputs :
          delete_time_entry(user, entry_id)

SpecGate == InitLedger /\ [][NextGate]_vars

\* Closing projects: the seed's tables, projects created and closed, and
\* work entries logged on a project or on a task of a project.
CloseCodeInputs == {"TF-NEW", "TF-CRM"}
CloseTaskIdInputs == {"", "2"}
CloseProjectIdInputs == {"", "1", "2"}

NextClose ==
    \/ \E user \in Actors, code \in CloseCodeInputs :
          new_project(user, code, 1, 0)
    \/ \E user \in Actors, project_id \in ProjectTargets :
          close_project(user, project_id)
    \/ /\ Cardinality(HandlerWork) < MaxWork
       /\ NewId(time_entries) <= MaxEntryId
       /\ \E user \in Actors, date \in EntryDateInputs, hours \in HoursInputs,
             task_id \in CloseTaskIdInputs, project_id \in CloseProjectIdInputs,
             notes \in NotesInputs :
             add_time_entry(user, date, hours, task_id, project_id, notes)
    \/ \E user \in Actors, entry_id \in EntryIdInputs :
          delete_time_entry(user, entry_id)

SpecClose == InitLedger /\ [][NextClose]_vars

\* ------------------------------------------------------------------ claims
DatesOf(leave) == {d \in leave.date_from..leave.date_to : TRUE}

\* C1: in every committed state an approved leave request has linked time
\* entries on exactly the dates of its range, and a pending or rejected one
\* has none.  (The seed stores an approved request and no entry.)
C1_ApprovedLeaveHasItsEntries ==
    \A l \in leaves :
        LET dates == {e.date : e \in LinkedEntries(time_entries, l.id)} IN
        IF l.status = "approved" THEN dates = DatesOf(l) ELSE dates = {}

\* C2: right after decide_leave(approve=true) the entries linked to the
\* request are exactly one per date of its range, each a locked, approved
\* leave entry of SHIFT_HOURS owned by the requester, with no task or project.
C2_ApproveSynchronises ==
    (last.op = "approve_leave" /\ last.code = "ok" /\ last.flag) =>
        \A l \in Get(leaves, last.target) :
            LET linked == LinkedEntries(time_entries, l.id) IN
            /\ \A d \in DatesOf(l) : Cardinality({e \in linked : e.date = d}) = 1
            /\ \A e \in linked :
                  /\ e.date \in DatesOf(l)
                  /\ e.entry_type = "leave"
                  /\ e.approved
                  /\ e.locked
                  /\ e.hours = SHIFT_HOURS
                  /\ e.user_id = l.user_id
                  /\ e.task_id = None
                  /\ e.project_id = None

\* C2 witness: an approval of a request that was approved before and had
\* linked entries has just synchronised a range of two or more days
C2_Witness ==
    /\ last.op = "approve_leave" /\ last.code = "ok" /\ last.flag
    /\ last.before = "approved" /\ last.linked_before >= 2
    /\ \E l \in Get(leaves, last.target) :
          /\ l.date_from < l.date_to
          /\ Cardinality(LinkedEntries(time_entries, l.id)) >= 2

\* C3: right after decide_leave(approve=false) no time entry is linked to the
\* request, its status is rejected and its approver is the caller, whatever
\* its status was before.
C3_RejectRetracts ==
    (last.op = "approve_leave" /\ last.code = "ok" /\ ~last.flag) =>
        \A l \in Get(leaves, last.target) :
            /\ LinkedEntries(time_entries, l.id) = {}
            /\ l.status = "rejected"
            /\ l.approver_id = last.caller

\* C3 witness: a request that was approved and had linked entries has just
\* been rejected
C3_Witness ==
    /\ last.op = "approve_leave" /\ last.code = "ok" /\ ~last.flag
    /\ last.before = "approved" /\ last.linked_before >= 2
    /\ \E l \in Get(leaves, last.target) : l.date_from <= l.date_to

C6_LockedNotDeleted ==
    [][/\ \A u \in users : \A e \in time_entries :
             (e.locked /\ e.user_id = u.id /\ delete_time_entry(u, e.id))
                => (last'.code = "400_locked" /\ UNCHANGED db)
       /\ last'.op = "delete_time_entry"
             => \A e \in time_entries : e.leave_request_id # None => e \in time_entries'
      ]_vars

\* C6 witness: the owner of a leave-derived entry has just been refused
C6_Witness ==
    /\ last.op = "delete_time_entry" /\ last.code = "400_locked"
    /\ \E e \in Get(time_entries, last.target) :
          e.locked /\ e.entry_type = "leave" /\ e.leave_request_id # None

\* C5: when an approved request whose entries cover [a, b] has the range
\* [c, d] and is approved again, its linked entries are afterwards exactly one
\* per date of [c, d]: the entries dated outside [c, d] are deleted, those
\* dated inside are kept under their ids, and each date of [c, d] that had no
\* entry gets a new one.
C5_ReapproveConvergesToRange ==
    [][(last'.op = "approve_leave" /\ last'.code = "ok" /\ last'.flag) =>
        \A l \in Get(leaves', last'.target) :
            LET before == LinkedEntries(time_entries, l.id)
                after == LinkedEntries(time_entries', l.id)
            IN
            /\ \A day \in DatesOf(l) : Cardinality({e \in after : e.date = day}) = 1
            /\ {e.date : e \in after} = DatesOf(l)
            /\ \A e \in before :
                  IF e.date \in DatesOf(l)
                  THEN \E f \in after : f.id = e.id /\ f.date = e.date
                  ELSE ~\E f \in time_entries' : f.id = e.id
            /\ \A f \in after :
                  (f.date \notin {e.date : e \in before})
                     => f.id \notin {e.id : e \in time_entries}
       ]_vars

\* C5 witness: a request whose ten entries covered the days 0..9 has just
\* been approved again with the range 2..4: three entries are left, the ones
\* the first synchronisation wrote for those days
C5_Witness ==
    /\ last.op = "approve_leave" /\ last.code = "ok" /\ last.flag
    /\ last.linked_before = 10
    /\ \E l \in Get(leaves, last.target) :
          /\ l.date_from = 2 /\ l.date_to = 4
          /\ {<<e.id, e.date>> : e \in LinkedEntries(time_entries, l.id)}
                = {<<3, 2>>, <<4, 3>>, <<5, 4>>}

\* C7: a locked time entry is changed or deleted by no step other than a
\* decide_leave on the leave request that owns it.  (approve_time has no lock
\* check and rewrites the approved flag of a locked entry.)
C7_LockedOnlyBySynchroniser ==
    [][\A e \in time_entries :
          e.locked =>
             \/ e \in time_entries'
             \/ /\ last'.op = "approve_leave" /\ last'.code = "ok"
                /\ last'.target = e.leave_request_id
      ]_vars

\* C8: the approved flag add_entry stores on a new work entry is true exactly
\* when the entry's date is not after today and at most allow_backfill_days
\* before it; an entry outside the window is stored all the same.  (A step
\* that leaves the date alone and ends with the outcome of add_time_entry is
\* a step of add_time_entry.)
C8_BackfillWindow ==
    [][(last'.op = "add_time_entry" /\ today' = today) =>
          /\ last'.code = "ok"
          /\ \E e \in time_entries' \ time_entries :
                /\ time_entries' = time_entries \cup {e}
                /\ e.id = last'.target
                /\ e.entry_type = "work"
                /\ e.approved <=>
                      (e.date <= today /\ today - e.date <= allow_backfill_days)
      ]_vars

\* C8 witness: an entry dated on the last day of a window of two days has
\* just been stored approved, after the clock advanced
C8_Witness ==
    /\ last.op = "add_time_entry" /\ last.code = "ok" /\ last.flag
    /\ allow_backfill_days = 2
    /\ today > ParseIsoDate(StartDate)
    /\ \E e \in Get(time_entries, last.target) :
          e.approved /\ today - e.date = allow_backfill_days

\* C9: a successful add_entry that is given a task id stores that task id
\* and no project id, and stores a project id only when no task id was
\* given.  (The task id text "00" parses to 0, which is not None and not
\* true: the project id is parsed, checked and stored next to task id 0.)
C9_TaskClearsProject ==
    (last.op = "add_time_entry" /\ last.code = "ok") =>
        \A e \in Get(time_entries, last.target) :
            LET given == _parse_optional_int(last.task_arg) IN
            /\ given # None => (e.task_id = given /\ e.project_id = None)
            /\ e.project_id # None => given = None

\* C10: no stored time entry has both a task id and a project id.  (Every
\* time entry of the seed has both.)
C10_TaskXorProject ==
    \A e \in time_entries : ~(e.task_id # None /\ e.project_id # None)

\* C11: add_entry with a task id fails with TaskMissing when the task does
\* not exist and with TaskForbidden when the caller is an employee and the
\* task is assigned to another user; otherwise it stores the entry, so a
\* task-bound entry of an employee names a task assigned to that employee.
\* (The task id text "00" parses to 0: no task is looked up and the entry is
\* stored with task id 0, the root cause of C9.)
C11_TaskChecked ==
    [][\A user \in Actors, task_id \in LedgerTaskIdInputs,
          project_id \in LedgerProjectIdInputs :
          LET given == _parse_optional_int(task_id)
              task == Get(tasks, given)
          IN
          (given # None /\ add_time_entry(user, "2024-01-03", "8", task_id, project_id, "work"))
             => IF task = {} THEN last'.code = "task_missing"
                ELSE IF user.role = "employee" /\ \E t \in task : t.assignee_id # user.id
                THEN last'.code = "task_forbidden"
                ELSE /\ last'.code = "ok"
                     /\ \E e \in time_entries' \ time_entries :
                           e.task_id = given /\ e.user_id = user.id
      ]_vars

\* C12: add_entry with a project id and no task id fails with ProjectMissing
\* when the project does not exist or is not active, and with
\* ProjectForbidden when the caller is an employee who neither owns the
\* project nor is a member of it; otherwise it stores the entry, whatever
\* projects were closed and members added or removed before.  (The project
\* id text "00" parses to 0: no project is looked up and the entry is stored
\* with project id 0, the root cause of C9.)
C12_ProjectChecked ==
    [][\A user \in Actors, project_id \in LedgerProjectIdInputs :
          LET given == _parse_optional_int(project_id)
              project == Get(projects, given)
          IN
          (given # None /\ add_time_entry(user, "2024-01-03", "8", "", project_id, "work"))
             => IF project = {} \/ \E p \in project : p.status # "active"
                THEN last'.code = "project_missing"
                ELSE IF /\ user.role = "employee"
                        /\ \E p \in project :
                              /\ p.owner_id # user.id
                              /\ ~\E m \in members :
                                    m.project_id = p.id /\ m.user_id = user.id
                THEN last'.code = "project_forbidden"
                ELSE /\ last'.code = "ok"
                     /\ \E e \in time_entries' \ time_entries :
                           e.project_id = given /\ e.task_id = None /\ e.user_id = user.id
      ]_vars

\* C14: an add_entry that ends with a failure creates no time entry and
\* changes no record.
C14_FailedAddChangesNothing ==
    [][(last'.op = "add_time_entry" /\ last'.code # "ok") => UNCHANGED db]_vars

\* C14 witness: an add_entry has just been refused with ProjectForbidden
\* while the tables hold time entries, members and projects
C14_Witness ==
    /\ last.op = "add_time_entry" /\ last.code = "project_forbidden"
    /\ time_entries # {} /\ members # {} /\ projects # {}

\* C15: delete_entry by a user who does not own the entry, or naming no
\* entry, ends with Forbidden and deletes nothing, also when the entry is
\* locked.
C15_NonOwnerForbidden ==
    [][\A user \in users, entry_id \in IdInputs(time_entries, time_entries) :
          ((\A e \in Get(time_entries, entry_id) : e.user_id # user.id)
              /\ delete_time_entry(user, entry_id))
             => (last'.code = "403" /\ UNCHANGED db)
      ]_vars

\* C15 witness: a delete_entry naming a locked entry has just ended with
\* Forbidden
C15_Witness ==
    /\ last.op = "delete_time_entry" /\ last.code = "403"
    /\ \E e \in Get(time_entries, last.target) : e.locked

\* C16: a successful delete_entry removes the one entry it names and leaves
\* every other record as it is; a delete_entry of the same id right after it
\* fails.
C16_DeleteRemovesOne ==
    [][/\ (last'.op = "delete_time_entry" /\ last'.code = "ok") =>
             /\ Cardinality(Get(time_entries, last'.target)) = 1
             /\ \A e \in Get(time_entries, last'.target) :
                   e.user_id = last'.caller /\ ~e.locked
             /\ time_entries' = time_entries \ Get(time_entries, last'.target)
             /\ UNCHANGED <<users, projects, members, tasks, leaves, attendance>>
       /\ (/\ last.op = "delete_time_entry" /\ last.code = "ok"
           /\ last'.op = "delete_time_entry" /\ last'.target = last.target)
             => (last'.code = "403" /\ UNCHANGED db)
      ]_vars

\* C16 witness: an entry has just been deleted by its owner, who has other
\* entries left
C16_Witness ==
    /\ last.op = "delete_time_entry" /\ last.code = "ok"
    /\ Get(time_entries, last.target) = {}
    /\ \E e \in time_entries : e.user_id = last.caller
    /\ leaves # {}

\* C13: every time entry add_entry stores has hours greater than 0, also
\* after the rounding to two decimal places.  (round(0.004, 2) is 0.0: the
\* text "0.004" passes the test value > 0 and is stored as 0 hours.)
C13_StoredHoursPositive ==
    \A e \in time_entries : e.entry_type = "work" => e.hours > 0

\* C17: check_in is written once: no check_in or check_out request changes
\* a check_in that is set, and a check_in request for a day whose record has
\* a check_in leaves the whole table as it is.
C17_CheckinFirstWriteWins ==
    [][/\ \A a \in attendance :
             a.check_in # None =>
                \E b \in attendance' :
                   /\ b.id = a.id /\ b.user_id = a.user_id /\ b.date = a.date
                   /\ b.check_in = a.check_in
       /\ \A user \in Actors, t \in NowInputs :
             (/\ \E a \in AttendanceRead(attendance, user.id, today) : a.check_in # None
              /\ attendance_checkin(user, Now(t)))
                => attendance' = attendance
      ]_vars

\* C17 witness: a check_in at 09:30 has just been served for a record that
\* holds check_in 09:00 and a check_out
C17_Witness ==
    /\ last.op = "attendance_checkin" /\ last.flag
    /\ last.now = DateTime(today, 9, 30)
    /\ \E a \in Get(attendance, last.target) :
          /\ a.check_in = DateTime(today, 9, 0)
          /\ a.check_out # None

\* C18: after check_out at the time now the record of the user and day has
\* check_out = now; a record that did not exist is created with check_in =
\* check_out = now, one that existed keeps its check_in.
C18_CheckoutLastWriteWins ==
    [][\A user \in Actors, t \in NowInputs :
          attendance_checkout(user, Now(t)) =>
             LET before == {a \in attendance : a.user_id = user.id /\ a.date = today}
                 after == {a \in attendance' : a.user_id = user.id /\ a.date = today}
             IN
             /\ \A b \in after : b.check_out = Now(t)
             /\ Cardinality(after) = 1
             /\ before = {} => \A b \in after : b.check_in = Now(t)
             /\ \A a \in before : \E b \in after : b.id = a.id /\ b.check_in = a.check_in
             /\ \A a \in attendance : (a.user_id # user.id \/ a.date # today) => a \in attendance'
      ]_vars

\* C18 witness: a check_out at 09:30 has just replaced the check_out of a
\* record whose check_in is 09:00
C18_Witness ==
    /\ last.op = "attendance_checkout" /\ last.flag
    /\ last.now = DateTime(today, 9, 30)
    /\ \E a \in Get(attendance, last.target) :
          /\ a.check_in = DateTime(today, 9, 0)
          /\ a.check_out = DateTime(today, 9, 30)

\* C19: with the requests served one at a time there is at most one
\* attendance record for a user and a date.
C19_OneRecordPerUserDay ==
    \A a \in attendance, b \in attendance :
        (a.user_id = b.user_id /\ a.date = b.date) => a.id = b.id

\* C19 witness: two users have records on two days each, and a check_in for
\* a day that has a record has just been served
C19_Witness ==
    /\ last.op = "attendance_checkin" /\ last.flag
    /\ Cardinality(attendance) = 4
    /\ Cardinality({a.user_id : a \in attendance}) = 2
    /\ Cardinality({a.date : a \in attendance}) = 2

\* C20: when two attendance requests for one user and day have both read
\* "no record" before either commits, one record for that user and day
\* exists once both have committed.  (The table has no unique constraint on
\* (user_id, date): both inserts are committed.)
C20_RaceLeavesOneRecord ==
    requests = {} =>
        \A user \in users :
            Cardinality({a \in attendance : a.user_id = user.id /\ a.date = today}) <= 1

\* C21: when two approve decisions for one leave request have both read its
\* linked entries before either commits, the request has one linked entry
\* per date once both have committed, as after two decisions served one
\* after the other.  (Both read "no entry", both insert the whole range, and
\* time_entries has no unique constraint on (leave_request_id, date).)
C21_ConcurrentApproveOneEntryPerDate ==
    requests = {} =>
        \A l \in leaves : \A d \in DatesOf(l) :
            Cardinality({e \in LinkedEntries(time_entries, l.id) : e.date = d}) <= 1

\* C22: create_task stores the new task unapproved and waiting when its
\* creator is an employee, approved and in progress when the creator is a
\* manager or an administrator, whoever the assignee is; its
\* percent_complete is 0.
C22_CreateTaskApproval ==
    [][(last'.op = "create_task" /\ last'.code = "ok") =>
          \E t \in tasks' \ tasks : \E user \in users :
             /\ tasks' = tasks \cup {t}
             /\ t.id = last'.target
             /\ user.id = last'.caller
             /\ t.created_by_id = user.id
             /\ t.percent_complete = 0
             /\ IF user.role = "employee"
                THEN ~t.approved /\ t.status = "waiting"
                ELSE t.approved /\ t.status = "in_progress"
      ]_vars

\* C22 witness: an employee has just created a task assigned to the manager:
\* it is unapproved and waiting
C22_Witness ==
    /\ last.op = "create_task" /\ last.code = "ok"
    /\ \E t \in Get(tasks, last.target) :
          /\ ~t.approved /\ t.status = "waiting" /\ t.percent_complete = 0
          /\ t.created_by_id = last.caller
          /\ \E u \in users : u.id = t.assignee_id /\ u.role = "manager"

\* C23: approve_task sets approved to the value given; the status changes
\* only when the task is approved while waiting, and then to in_progress;
\* otherwise the status, and in every case percent_complete and every other
\* task, stay as they are.
C23_ApproveTask ==
    [][(last'.op = "approve_task" /\ last'.code = "ok") =>
          \E t \in Get(tasks, last'.target) : \E n \in Get(tasks', last'.target) :
             /\ tasks' = (tasks \ {t}) \cup {n}
             /\ n.approved = last'.flag
             /\ n.status = IF last'.flag /\ t.status = "waiting"
                           THEN "in_progress" ELSE t.status
             /\ n.percent_complete = t.percent_complete
             /\ n.assignee_id = t.assignee_id
             /\ n.created_by_id = t.created_by_id
      ]_vars

\* C23 witness: a task that is waiting at 100 percent has just been
\* disapproved: it is still waiting
C23_Witness ==
    /\ last.op = "approve_task" /\ last.code = "ok" /\ ~last.flag
    /\ \E t \in Get(tasks, last.target) :
          ~t.approved /\ t.status = "waiting" /\ t.percent_complete = 100

\* C24: every task has a percent_complete from 0 to 100; update_status
\* stores the percentage it is given clamped to that range (150 as 100, -5
\* as 0), and no other request changes the percent_complete of a task.
C24_PercentClamped ==
    [][/\ \A t \in tasks \cup tasks' :
             0 <= t.percent_complete /\ t.percent_complete <= 100
       /\ (last'.op = "update_task_status" /\ last'.code = "ok")
             => \A n \in Get(tasks', last'.target) :
                   n.percent_complete = IF last'.percent_arg > 100 THEN 100
                                        ELSE IF last'.percent_arg < 0 THEN 0
                                        ELSE last'.percent_arg
       /\ (last'.op # "update_task_status" \/ last'.code # "ok")
             => \A t \in tasks : \E n \in tasks' :
                   n.id = t.id /\ n.percent_complete = t.percent_complete
      ]_vars

\* C24 witness: an update has just been stored, task 2 is at 0 percent and
\* the new task at 100
C24_Witness ==
    /\ last.op = "update_task_status" /\ last.code = "ok"
    /\ last.percent_arg = 150
    /\ \E t \in Get(tasks, 2) : t.percent_complete = 0
    /\ \E t \in Get(tasks, MaxTaskId) : t.percent_complete = 100

\* C25: update_status by an employee on a task assigned to another user
\* fails with Forbidden and changes no record, comments included; a manager
\* updates any task and an employee a task assigned to them, whoever
\* created it.
C25_UpdateAccess ==
    [][\A user \in Actors, task_id \in {1, 2}, status_v \in {"in_progress", "done"},
          comment \in CommentInputs :
          \A t \in Get(tasks, task_id) :
             update_task_status(user, task_id, status_v, 45, comment)
                => IF user.role = "employee" /\ t.assignee_id # user.id
                   THEN last'.code = "403" /\ UNCHANGED db
                   ELSE /\ last'.code = "ok"
                        /\ \E n \in Get(tasks', task_id) : n.status = status_v
      ]_vars

\* C25 witness: an update of a task of another user has just been refused
\* while comments are stored, and the employee's own task, created by the
\* manager, is done
C25_Witness ==
    /\ last.op = "update_task_status" /\ last.code = "403"
    /\ Get(tasks, last.target) # {}
    /\ task_comments # {}
    /\ \E t \in tasks, u \in Designers :
          /\ t.assignee_id = u.id /\ t.created_by_id # u.id /\ t.status = "done"
          /\ \E c \in task_comments : c.task_id = t.id /\ c.author_id = u.id

\* C26: update_status naming a task that does not exist fails with a
\* not-found failure, another one than Forbidden.  (The handler answers a
\* missing task and a task of another user with the same 403.)
C26_MissingTaskNotFound ==
    (last.op = "update_task_status" /\ Get(tasks, last.target) = {})
        => last.code = "404"

\* C27: update_status stores the status it is given whatever the status of
\* the task was, approved or not, and leaves approved, the assignee and the
\* creator of the task as they are.
C27_AnyTransition ==
    [][(last'.op = "update_task_status" /\ last'.code = "ok") =>
          \E t \in Get(tasks, last'.target) : \E n \in Get(tasks', last'.target) :
             /\ tasks' = (tasks \ {t}) \cup {n}
             /\ t.status = last'.before
             /\ n.status = last'.status_arg
             /\ n.approved = t.approved
             /\ n.assignee_id = t.assignee_id
             /\ n.created_by_id = t.created_by_id
      ]_vars

\* C27 witness: an unapproved task that was canceled has just been set to
\* waiting
C27_Witness ==
    /\ last.op = "update_task_status" /\ last.code = "ok"
    /\ last.before = "canceled" /\ last.status_arg = "waiting"
    /\ \E t \in Get(tasks, last.target) : t.status = "waiting" /\ ~t.approved

\* C28: a successful update_status adds one comment (the task, the caller,
\* the text without the blanks around it) when the text given is not blank,
\* and none when it is empty or blank; the comments stored before stay as
\* they are.
C28_CommentAppended ==
    [][/\ task_comments \subseteq task_comments'
       /\ \A user \in Actors, task_id \in {1, 2}, status_v \in {"in_progress", "done"},
             comment \in CommentInputs :
             (update_task_status(user, task_id, status_v, 45, comment) /\ last'.code = "ok")
                => IF comment = " done "
                   THEN \E c \in task_comments' \ task_comments :
                           /\ task_comments' = task_comments \cup {c}
                           /\ c.task_id = task_id
                           /\ c.author_id = user.id
                           /\ c.content = "done"
                   ELSE task_comments' = task_comments
      ]_vars

\* C28 witness: the second comment has just been stored, and both read "done"
C28_Witness ==
    /\ last.op = "update_task_status" /\ last.code = "ok" /\ last.flag
    /\ Cardinality(task_comments) = 2
    /\ \A c \in task_comments : c.content = "done"
    /\ \E c \in task_comments : c.id = 2 /\ c.task_id = last.target /\ c.author_id = last.caller

\* C29: request_leave with date_from after date_to is rejected and stores
\* nothing: every stored leave request has date_from <= date_to.  (The
\* handler parses the two dates and stores them without comparing them.)
C29_RangeOrdered ==
    \A l \in leaves : l.date_from <= l.date_to

\* C30: a leave request is created pending and without approver, by
\* request_leave and by the calendar form alike; its status and approver
\* change only in a decide_leave on it, after which they are the decision
\* and the caller of that decide_leave, whatever was decided before; a
\* request that has been decided is never pending again, and no request is
\* removed.
C30_LeaveLifecycle ==
    [][/\ \A l \in leaves' :
             (~\E o \in leaves : o.id = l.id) =>
                /\ l.status = "pending" /\ l.approver_id = None
                /\ last'.op \in {"request_leave", "calendar_leave_cell"}
                /\ last'.target = l.id
       /\ \A o \in leaves : \E l \in leaves' :
             /\ l.id = o.id
             /\ (l.status # o.status \/ l.approver_id # o.approver_id) =>
                   /\ last'.op = "approve_leave" /\ last'.code = "ok"
                   /\ last'.target = o.id
             /\ o.status # "pending" => l.status # "pending"
       /\ (last'.op = "approve_leave" /\ last'.code = "ok") =>
             \A l \in Get(leaves', last'.target) :
                /\ l.status = IF last'.flag THEN "approved" ELSE "rejected"
                /\ l.approver_id = last'.caller
      ]_vars

\* C30 witness: a request made through a form, rejected before, has just
\* been approved by the administrator
C30_Witness ==
    /\ last.op = "approve_leave" /\ last.code = "ok" /\ last.flag
    /\ last.before = "rejected"
    /\ \E l \in Get(leaves, last.target) :
          /\ l \in HandlerLeaves
          /\ l.status = "approved"
          /\ \E u \in users : u.id = l.approver_id /\ u.role = "admin"

\* C31: the calendar form creates a new pending request for the one date d
\* exactly when the user has no pending or approved request whose range
\* contains d, and otherwise answers LeaveExists and stores nothing;
\* rejected requests of the user and requests of other users do not count.
C31_QuickCreateGuard ==
    [][\A user \in Actors, date \in CalendarDateInputs \ {"04.01.2024"},
          type \in LeaveTypeInputs :
          calendar_leave_cell(user, date, type) =>
             LET d == ParseIsoDate(date)
                 blocking == {l \in leaves :
                                 /\ l.user_id = user.id
                                 /\ l.status \in {"pending", "approved"}
                                 /\ d \in l.date_from..l.date_to}
             IN
             IF blocking = {}
             THEN /\ last'.code = "leave_created"
                  /\ \E n \in leaves' \ leaves :
                        /\ leaves' = leaves \cup {n}
                        /\ n.user_id = user.id
                        /\ n.status = "pending"
                        /\ n.date_from = d /\ n.date_to = d
             ELSE last'.code = "leave_exists" /\ UNCHANGED db
      ]_vars

\* C31 witness: a quick-create has just stored a request for a date that a
\* rejected request of the same user and a pending request of another user
\* both cover
C31_Witness ==
    /\ last.op = "calendar_leave_cell" /\ last.code = "leave_created"
    /\ \E n \in Get(leaves, last.target) :
          /\ \E l \in leaves :
                /\ l.user_id = n.user_id /\ l.status = "rejected"
                /\ n.date_from \in l.date_from..l.date_to
          /\ \E l \in leaves :
                /\ l.user_id # n.user_id /\ l.status = "pending"
                /\ n.date_from \in l.date_from..l.date_to

\* C32: approve_task, approve_time and decide_leave sent by an employee are
\* refused and change no record; the approved flag of a task or of a time
\* entry and the status of a leave request change only in a request of a
\* manager or an administrator, and the approver stored with a decision is
\* that caller.
C32_ApprovalsNeedRole ==
    [][/\ \A user \in LeaveActors, approve \in ApproveInputs :
             user.role = "employee" =>
                /\ \A task_id \in TaskTargets :
                      approve_task(user, task_id, approve)
                         => (last'.code = "403" /\ UNCHANGED db)
                /\ \A entry_id \in ApprovalEntryInputs :
                      approve_time(user, entry_id, approve)
                         => (last'.code = "403" /\ UNCHANGED db)
                /\ \A leave_id \in IdInputs(HandlerLeaves, leaves) :
                      approve_leave(user, leave_id, approve)
                         => (last'.code = "403" /\ UNCHANGED db)
       /\ ((\E t \in tasks, n \in tasks' : n.id = t.id /\ n.approved # t.approved)
           \/ (\E e \in time_entries, n \in time_entries' :
                  n.id = e.id /\ n.approved # e.approved)
           \/ (\E l \in leaves, n \in leaves' :
                  n.id = l.id /\ (n.status # l.status \/ n.approver_id # l.approver_id)))
             => \E u \in users :
                   /\ u.id = last'.caller
                   /\ u.role \in {"manager", "admin"}
                   /\ last'.op \in {"approve_task", "approve_time", "approve_leave"}
       /\ \A l \in leaves, n \in leaves' :
             (n.id = l.id /\ n.status # l.status)
                => \E u \in users :
                      u.id = n.approver_id /\ u.role \in {"manager", "admin"}
      ]_vars

\* C32 witness: the employee's decision on a pending leave request of
\* their own has just been refused, while the task the employee created is
\* still unapproved
C32_Witness ==
    /\ last.op = "approve_leave" /\ last.code = "403"
    /\ \E l \in Get(leaves, last.target) : l.status = "pending"
    /\ \E t \in tasks : ~t.approved
    /\ \E e \in time_entries : ~e.approved

\* C33: the list of allowed projects holds, each once and in the order of
\* their codes, every active project for a manager or an administrator, and
\* for an employee the active projects the employee owns or is a member of;
\* it holds no closed project, and a project whose membership was taken from
\* an employee who does not own it is not in the employee's list.
C33_AllowedProjects ==
    \A user \in users :
        LET list == AllowedProjectsList(user)
            expected ==
                {p \in projects :
                    /\ p.status = "active"
                    /\ \/ user.role \in {"manager", "admin"}
                       \/ p.owner_id = user.id
                       \/ \E m \in members : m.project_id = p.id /\ m.user_id = user.id}
        IN
        /\ {list[i] : i \in DOMAIN list} = expected
        /\ Len(list) = Cardinality(expected)
        /\ \A i \in DOMAIN list : \A j \in DOMAIN list :
              i < j => CodeRank(list[i].code) < CodeRank(list[j].code)
        /\ \A i \in DOMAIN list : list[i].status # "closed"

\* C33 witness: a membership of the designer has just been removed; the
\* designer's list holds the project the designer owns and not the active
\* project of the lost membership, the manager's list holds both, and a
\* closed project is in neither
C33_Witness ==
    /\ last.op = "project_remove_member" /\ last.code = "ok" /\ last.flag
    /\ \E p \in projects : p.status = "closed"
    /\ \E u \in Designers, mgr \in Managers :
          /\ \E i \in DOMAIN AllowedProjectsList(u) :
                AllowedProjectsList(u)[i].owner_id = u.id
          /\ \E p \in projects :
                /\ p.status = "active" /\ p.owner_id # u.id
                /\ ~\E m \in members : m.project_id = p.id /\ m.user_id = u.id
                /\ p \notin allowed_projects_for(u)
                /\ p \in allowed_projects_for(mgr)
          /\ Len(AllowedProjectsList(mgr)) >= 2

C36_OneLeaveEntryPerUserDay ==
    \A e \in time_entries, f \in time_entries :
        (/\ e.entry_type = "leave" /\ f.entry_type = "leave"
         /\ e.user_id = f.user_id /\ e.date = f.date) => e.id = f.id

\* C37: decide_leave on a leave request creates, changes and deletes only
\* time entries linked to that request: every work entry and every entry
\* linked to another request stays as it is, and so do every other leave
\* request and every task and attendance record.
C37_DecideLeaveFrame ==
    [][(last'.op = "approve_leave" /\ last'.code = "ok") =>
          /\ \A e \in time_entries :
                e.leave_request_id # last'.target => e \in time_entries'
          /\ \A e \in time_entries' :
                e.leave_request_id # last'.target => e \in time_entries
          /\ \A l \in leaves : l.id # last'.target => l \in leaves'
          /\ \A l \in leaves' : l.id # last'.target => l \in leaves
          /\ UNCHANGED <<users, projects, members, tasks, attendance, task_comments>>
      ]_vars

\* C37 witness: a leave request of the designer has just been rejected
\* while the designer has a work entry dated inside its range and another
\* leave request has its entries
C37_Witness ==
    /\ last.op = "approve_leave" /\ last.code = "ok" /\ ~last.flag
    /\ last.linked_before >= 1
    /\ \E l \in Get(leaves, last.target) :
          /\ \E e \in time_entries :
                /\ e.entry_type = "work" /\ e.user_id = l.user_id
                /\ e.date \in l.date_from..l.date_to
          /\ \E e \in time_entries :
                e.leave_request_id # None /\ e.leave_request_id # l.id

\* C38: with a clock that does not run backwards, every attendance record
\* has a check_in, a check_out that is set is not before the check_in, and
\* a check_in request for a user and day whose record has a check_out
\* changes nothing.
C38_CheckinBeforeCheckout ==
    [][/\ \A a \in attendance \cup attendance' :
             /\ a.check_in # None
             /\ a.check_out # None => a.check_in <= a.check_out
       /\ \A user \in Actors, t \in ClockInputs :
             (/\ \E a \in AttendanceRead(attendance, user.id, today) : a.check_out # None
              /\ attendance_checkin(user, Now(t)))
                => attendance' = attendance
      ]_vars

\* C38 witness: a check_in at 18:05 has just been served for a record made
\* by a check_out at 09:00 and checked out again at 09:30
C38_Witness ==
    /\ last.op = "attendance_checkin" /\ last.flag
    /\ last.now = DateTime(today, 18, 5)
    /\ \E a \in Get(attendance, last.target) :
          /\ a.check_in = DateTime(today, 9, 0)
          /\ a.check_out = DateTime(today, 9, 30)

\* C39: add_entry stores no time entry bound to a task whose approved flag
\* is false when the request is served.  (add_time_entry looks the task up
\* and tests its assignee, never its approved flag.)
C39_ApprovalGate ==
    [][(last'.op = "add_time_entry" /\ last'.code = "ok") =>
          \A e \in time_entries' \ time_entries :
             \A t \in Get(tasks, e.task_id) : t.approved
      ]_vars

\* C40: a closed project stays closed under every operation, closing a
\* project changes no time entry, and a time entry that add_entry stores
\* names no closed project, neither as its project nor as the project of
\* its task.  (add_time_entry tests the status of a project named directly,
\* never the project of the task named.)
C40_ClosedStaysClosed ==
    [][/\ \A p \in projects : p.status = "closed" =>
             \A q \in Get(projects', p.id) : q.status = "closed"
       /\ last'.op = "close_project" => time_entries' = time_entries
       /\ (last'.op = "add_time_entry" /\ last'.code = "ok") =>
             \A e \in time_entries' \ time_entries :
                \A p \in projects :
                   p.status = "closed" =>
                      /\ e.project_id # p.id
                      /\ \A t \in Get(tasks, e.task_id) : t.project_id # p.id
      ]_vars

====
